---- MODULE Spec2Model ----
(***************************************************************************)
(* A model of the storage-engine core of bustub: the LRU-K frame replacer, *)
(* the buffer pool manager instance and the B+-tree index built on it.     *)
(*                                                                         *)
(* A Page* of the program is a frame index (NULL for nullptr); the bytes   *)
(* of a page are a record: zeroed bytes, a B+-tree node, or caller bytes.  *)
(* Every operation of the program is a pure operator from a state record   *)
(* to a result record, and the actions apply these operators.              *)
(***************************************************************************)
EXTENDS Integers, Sequences, FiniteSets, TLC

VARIABLES pool,          \* the BufferPoolManagerInstance (frames, table, replacer, disk)
          root_page_id_, \* BPlusTree::root_page_id_
          transaction,   \* the Transaction handle the caller passes to the tree
          latches,       \* root_page_id_latch_ and the rwlatch_ of every frame
          fault,         \* "none", or how the running operation stopped the program
          sizeReadFirst, \* the build's order of the two operands compared in Remove
          threads,       \* the threads calling the tree concurrently: the call each
                         \* is in, where it stands in it, its locals and Transaction
          replacer,      \* an LRUKReplacer called directly, outside any pool
          table,         \* an ExtendibleHashTable called directly, outside any pool
          last           \* ghost: the last call, with its inputs and result (pool),
                         \* the structural steps it took (tree), or the calls that
                         \* have returned so far (concurrent tree)

vars == <<pool, root_page_id_, transaction, latches, fault, sizeReadFirst, threads, replacer,
          table, last>>

(***************************************************************************)
(* Bounds of the model and constants of the program.                       *)
(***************************************************************************)
INVALID_PAGE_ID == -1
NULL == -1
HEADER_PAGE_ID == 0

PoolFrames == 2        \* pool_size of the pool checked on its own
ReplacerK == 2         \* replacer_k of the pools
MaxPageId == 3         \* page ids the pool specification allocates
MaxTimestamp == 4      \* accesses the pool specification records
LeafMaxSize == 3       \* leaf_max_size of the tree
InternalMaxSize == 3   \* internal_max_size of the tree
MaxKey == 5            \* the tree specification uses the keys 1 .. MaxKey
TreeMaxPages == 8      \* page ids the tree specification allocates

ReplFrames == 3        \* num_frames of the replacer checked on its own
MaxReplTimestamp == 5  \* accesses the replacer specification records
\* maxTimestamp of the replacer: a timestamp above every one a run records
maxTimestamp == MaxReplTimestamp + 1

EmptyMap == [x \in {} |-> 0]
MapPut(m, k, v) == [x \in (DOMAIN m) \cup {k} |-> IF x = k THEN v ELSE m[x]]
MapDel(m, k) == [x \in (DOMAIN m) \ {k} |-> m[x]]

\* Page::ResetMemory leaves zeroed bytes: read as a tree page they have the
\* page type 0 (INVALID_INDEX_PAGE), size 0 and every id and key 0.
ZeroData ==
    [page_type |-> "ZERO", page_id_ |-> 0, parent_page_id_ |-> 0, max_size_ |-> 0,
     next_page_id_ |-> 0, array_ |-> <<>>]

(***************************************************************************)
(* LRUKReplacer                                                            *)
(***************************************************************************)
LRUKReplacer(num_frames, k) ==
    [replacer_size_ |-> num_frames, k_ |-> k,
     frameRecords |-> EmptyMap, frameEvictable |-> EmptyMap,
     current_timestamp_ |-> 0, evictableNum |-> 0, fault |-> "none"]

\* LRUKReplacer::Remove
ReplacerRemove(r, frame_id) ==
    IF frame_id \notin DOMAIN r.frameEvictable THEN r
    ELSE IF ~r.frameEvictable[frame_id] THEN [r EXCEPT !.fault = "assert"]
    ELSE [r EXCEPT !.frameRecords = MapDel(@, frame_id),
                   !.frameEvictable = MapDel(@, frame_id),
                   !.evictableNum = @ - 1]

\* The frame Evict's scan over frameRecords ends with: timestamps are unique,
\* so the scan order does not matter.
EvictChoice(r) ==
    LET ev == {f \in DOMAIN r.frameRecords : r.frameEvictable[f]}
        lessK == {f \in ev : Len(r.frameRecords[f]) < r.k_}
        from == IF lessK # {} THEN lessK ELSE ev
    IN  IF ev = {} THEN NULL
        ELSE CHOOSE f \in from :
                \A g \in from : r.frameRecords[f][1] <= r.frameRecords[g][1]

\* Variant: the scan takes the earliest front, whatever the queue's length
ScanStepIgnoresLessK(r, st, f) ==
    IF ~r.frameEvictable[f] THEN st
    ELSE IF r.frameRecords[f][1] < st.minTime
    THEN [st EXCEPT !.minTime = r.frameRecords[f][1], !.frame_id = f]
    ELSE st

\* The body of the loop of LRUKReplacer::Evict for the entry of frame f; st
\* holds minTime, findLessKFrame and *frame_id
ScanStep(r, st, f) ==
    IF ~r.frameEvictable[f] THEN st
    ELSE IF Len(r.frameRecords[f]) < r.k_
    THEN IF ~st.findLessKFrame \/ r.frameRecords[f][1] < st.minTime
         THEN [findLessKFrame |-> TRUE, minTime |-> r.frameRecords[f][1], frame_id |-> f]
         ELSE st
    ELSE IF ~st.findLessKFrame /\ r.frameRecords[f][1] < st.minTime
    THEN [st EXCEPT !.minTime = r.frameRecords[f][1], !.frame_id = f]
    ELSE st

\* The loop of LRUKReplacer::Evict over frameRecords, met in the order `order`
RECURSIVE ScanFrom(_, _, _)
ScanFrom(r, st, order) ==
    IF order = <<>> THEN st
    ELSE ScanFrom(r, ScanStep(r, st, Head(order)), Tail(order))

\* The frame the scan of Evict ends with, NULL if minTime is left at maxTimestamp
EvictScan(r, order) ==
    LET st == ScanFrom(r, [findLessKFrame |-> FALSE, minTime |-> maxTimestamp,
                           frame_id |-> NULL], order)
    IN  IF st.minTime = maxTimestamp THEN NULL ELSE st.frame_id

\* The end of LRUKReplacer::Evict, with *frame_id as the scan left it
EvictFound(r, v) ==
    IF v = NULL THEN [r |-> r, ok |-> FALSE, frame_id |-> NULL]
    ELSE [r |-> ReplacerRemove(r, v), ok |-> TRUE, frame_id |-> v]

\* LRUKReplacer::Evict
Evict(r) == EvictFound(r, EvictChoice(r))

\* LRUKReplacer::RecordAccess from line 55 on: an unknown frame is admitted as
\* evictable, and the access is recorded in the frame's queue of k_ timestamps
RecordAccessTo(r, frame_id) ==
    LET known == frame_id \in DOMAIN r.frameRecords
        ts == r.current_timestamp_ + 1
        old == IF known THEN r.frameRecords[frame_id] ELSE <<>>
        pushed == Append(old, ts)
        kept == IF Len(pushed) > r.k_ THEN Tail(pushed) ELSE pushed
    IN  [r EXCEPT !.frameRecords = MapPut(@, frame_id, kept),
                  !.frameEvictable = IF known THEN @ ELSE MapPut(@, frame_id, TRUE),
                  !.evictableNum = IF known THEN @ ELSE @ + 1,
                  !.current_timestamp_ = ts]

\* LRUKReplacer::RecordAccess.  With the replacer full and the frame unknown it
\* calls Evict while holding latch_, which Evict locks again.
RecordAccess(r, frame_id) ==
    IF frame_id < 0 \/ frame_id > r.replacer_size_ THEN [r EXCEPT !.fault = "assert"]
    ELSE IF Cardinality(DOMAIN r.frameRecords) = r.replacer_size_
            /\ frame_id \notin DOMAIN r.frameRecords
    THEN [r EXCEPT !.fault = "deadlock"]
    ELSE RecordAccessTo(r, frame_id)

\* RecordAccess of an unknown frame on a full replacer when the build lets the
\* second lock of latch_ through: Evict runs, and the frame is admitted
\* whether or not Evict found a victim
RecordAccessRelocked(r, frame_id) == RecordAccessTo(Evict(r).r, frame_id)

\* Variant: the count follows every call, whatever the flag was before
SetEvictableCountsEveryCall(r, frame_id, set_evictable) ==
    IF frame_id \notin DOMAIN r.frameEvictable THEN [r EXCEPT !.fault = "assert"]
    ELSE [r EXCEPT !.evictableNum = IF set_evictable THEN @ + 1 ELSE @ - 1,
                   !.frameEvictable[frame_id] = set_evictable]

\* LRUKReplacer::SetEvictable
SetEvictable(r, frame_id, set_evictable) ==
    IF frame_id \notin DOMAIN r.frameEvictable THEN [r EXCEPT !.fault = "assert"]
    ELSE [r EXCEPT !.evictableNum =
                       IF set_evictable /\ ~r.frameEvictable[frame_id] THEN @ + 1
                       ELSE IF ~set_evictable /\ r.frameEvictable[frame_id] THEN @ - 1
                       ELSE @,
                   !.frameEvictable[frame_id] = set_evictable]

\* LRUKReplacer::Size
ReplacerSize(r) == r.evictableNum

(***************************************************************************)
(* BufferPoolManagerInstance                                               *)
(***************************************************************************)
BufferPoolManagerInstance(pool_size, replacer_k) ==
    [pool_size_ |-> pool_size,
     pages_ |-> [f \in 0 .. pool_size - 1 |->
                   [page_id_ |-> INVALID_PAGE_ID, pin_count_ |-> 0,
                    is_dirty_ |-> FALSE, data_ |-> ZeroData]],
     page_table_ |-> EmptyMap,
     free_list_ |-> [i \in 1 .. pool_size |-> i - 1],
     replacer_ |-> LRUKReplacer(pool_size, replacer_k),
     next_page_id_ |-> 0,
     disk |-> EmptyMap]

\* DiskManager::ReadPage: a page never written reads as zeroed bytes.
ReadPage(b, page_id) ==
    IF page_id \in DOMAIN b.disk THEN b.disk[page_id] ELSE ZeroData

\* Variant: the victim is cleared before it is written back
AcquireVictimClearsFirst(b, e) ==
    IF ~e.ok THEN [b |-> b, frameId |-> NULL]
    ELSE LET f == e.frame_id
             lastPageId == b.pages_[f].page_id_
             dirty == b.pages_[f].is_dirty_
         IN  [b |-> [b EXCEPT
                       !.replacer_ = e.r,
                       !.page_table_ = MapDel(@, lastPageId),
                       !.disk = IF dirty THEN MapPut(@, lastPageId, ZeroData)
                                ELSE @,
                       !.pages_[f].is_dirty_ = FALSE,
                       !.pages_[f].data_ = ZeroData],
              frameId |-> f]

\* The victim branch of the frame acquisition: e is what replacer_->Evict
\* returned; the victim is unmapped and written back if dirty.
AcquireVictim(b, e) ==
    IF ~e.ok THEN [b |-> b, frameId |-> NULL]
    ELSE LET f == e.frame_id
             lastPageId == b.pages_[f].page_id_
             dirty == b.pages_[f].is_dirty_
         IN  [b |-> [b EXCEPT
                       !.replacer_ = e.r,
                       !.page_table_ = MapDel(@, lastPageId),
                       !.disk = IF dirty THEN MapPut(@, lastPageId, b.pages_[f].data_)
                                ELSE @,
                       !.pages_[f].is_dirty_ = FALSE,
                       !.pages_[f].data_ = ZeroData],
              frameId |-> f]

\* Variant: with the free list empty no victim is sought
AcquireFrameNeverEvicts(b) ==
    IF b.free_list_ # <<>>
    THEN [b |-> [b EXCEPT !.free_list_ = SubSeq(@, 1, Len(@) - 1)],
          frameId |-> b.free_list_[Len(b.free_list_)]]
    ELSE [b |-> b, frameId |-> NULL]

\* The frame acquisition NewPgImp and FetchPgImp share: the free list first,
\* then a victim of the replacer.
AcquireFrame(b) ==
    IF b.free_list_ # <<>>
    THEN [b |-> [b EXCEPT !.free_list_ = SubSeq(@, 1, Len(@) - 1)],
          frameId |-> b.free_list_[Len(b.free_list_)]]
    ELSE AcquireVictim(b, Evict(b.replacer_))

\* Variant: the frame keeps the page id it held before
NewPgInFrameKeepsPageId(a, newPageId) ==
    LET f == a.frameId
    IN  IF f = NULL THEN [b |-> a.b, page |-> NULL, page_id |-> INVALID_PAGE_ID]
        ELSE [b |-> [a.b EXCEPT
                       !.page_table_ = MapPut(@, newPageId, f),
                       !.replacer_ = SetEvictable(RecordAccess(@, f), f, FALSE),
                       !.pages_[f].pin_count_ = @ + 1],
              page |-> f, page_id |-> newPageId]

\* NewPgImp once the frame is acquired (a): the page is mapped and pinned
NewPgInFrame(a, newPageId) ==
    LET f == a.frameId
    IN  IF f = NULL THEN [b |-> a.b, page |-> NULL, page_id |-> INVALID_PAGE_ID]
        ELSE [b |-> [a.b EXCEPT
                       !.page_table_ = MapPut(@, newPageId, f),
                       !.replacer_ = SetEvictable(RecordAccess(@, f), f, FALSE),
                       !.pages_[f].pin_count_ = @ + 1,
                       !.pages_[f].page_id_ = newPageId],
              page |-> f, page_id |-> newPageId]

\* BufferPoolManagerInstance::NewPgImp
NewPgImp(b) ==
    NewPgInFrame(AcquireFrame([b EXCEPT !.next_page_id_ = @ + 1]), b.next_page_id_)

\* Variant: the page is read and pinned but not entered in the page table
FetchPgInFrameUnmapped(a, page_id) ==
    LET f == a.frameId
    IN  IF f = NULL THEN [b |-> a.b, page |-> NULL]
        ELSE [b |-> [a.b EXCEPT
                       !.replacer_ = SetEvictable(RecordAccess(@, f), f, FALSE),
                       !.pages_[f].data_ = ReadPage(a.b, page_id),
                       !.pages_[f].pin_count_ = @ + 1,
                       !.pages_[f].page_id_ = page_id],
              page |-> f]

\* FetchPgImp on a miss once the frame is acquired (a): the page is read,
\* mapped and pinned
FetchPgInFrame(a, page_id) ==
    LET f == a.frameId
    IN  IF f = NULL THEN [b |-> a.b, page |-> NULL]
        ELSE [b |-> [a.b EXCEPT
                       !.page_table_ = MapPut(@, page_id, f),
                       !.replacer_ = SetEvictable(RecordAccess(@, f), f, FALSE),
                       !.pages_[f].data_ = ReadPage(a.b, page_id),
                       !.pages_[f].pin_count_ = @ + 1,
                       !.pages_[f].page_id_ = page_id],
              page |-> f]

\* BufferPoolManagerInstance::FetchPgImp
FetchPgImp(b, page_id) ==
    IF page_id \in DOMAIN b.page_table_
    THEN [b |-> b, page |-> b.page_table_[page_id]]
    ELSE FetchPgInFrame(AcquireFrame(b), page_id)

\* Variant: the last unpin leaves the frame non-evictable
UnpinPgImpKeepsNonEvictable(b, page_id, is_dirty) ==
    IF page_id \notin DOMAIN b.page_table_ THEN [b |-> b, ret |-> FALSE]
    ELSE LET f == b.page_table_[page_id]
         IN  IF b.pages_[f].pin_count_ <= 0 THEN [b |-> b, ret |-> FALSE]
             ELSE [b |-> [b EXCEPT
                            !.pages_[f].pin_count_ = @ - 1,
                            !.pages_[f].is_dirty_ = is_dirty],
                   ret |-> TRUE]

\* BufferPoolManagerInstance::UnpinPgImp
UnpinPgImp(b, page_id, is_dirty) ==
    IF page_id \notin DOMAIN b.page_table_ THEN [b |-> b, ret |-> FALSE]
    ELSE LET f == b.page_table_[page_id]
         IN  IF b.pages_[f].pin_count_ <= 0 THEN [b |-> b, ret |-> FALSE]
             ELSE [b |-> [b EXCEPT
                            !.pages_[f].pin_count_ = @ - 1,
                            !.replacer_ = IF b.pages_[f].pin_count_ - 1 = 0
                                          THEN SetEvictable(@, f, TRUE) ELSE @,
                            !.pages_[f].is_dirty_ = is_dirty],
                   ret |-> TRUE]

\* BufferPoolManagerInstance::FlushPgImp
FlushPgImp(b, page_id) ==
    IF page_id \notin DOMAIN b.page_table_ THEN [b |-> b, ret |-> FALSE]
    ELSE LET f == b.page_table_[page_id]
         IN  [b |-> [b EXCEPT !.disk = MapPut(@, page_id, b.pages_[f].data_),
                              !.pages_[f].is_dirty_ = FALSE],
              ret |-> TRUE]

\* The loop of FlushAllPgsImp from frame i on: FlushPgImp of the page id each
\* frame stores
RECURSIVE FlushFrames(_, _)
FlushFrames(b, i) ==
    IF i >= b.pool_size_ THEN b
    ELSE FlushFrames(FlushPgImp(b, b.pages_[i].page_id_).b, i + 1)

\* BufferPoolManagerInstance::FlushAllPgsImp.  It locks latch_ and calls
\* FlushPgImp, which locks latch_ again: locking a std::mutex its owner holds
\* is undefined; the thread waits for itself, or (relocked) the build lets
\* the second lock through.
FlushAllPgsImp(b, relocked) ==
    IF b.pool_size_ = 0 \/ relocked THEN [b |-> FlushFrames(b, 0), returned |-> TRUE]
    ELSE [b |-> b, returned |-> FALSE]

\* Variant: the frame goes back to the free list with its bytes
DeletePgImpKeepsBytes(b, page_id) ==
    IF page_id \notin DOMAIN b.page_table_ THEN [b |-> b, ret |-> TRUE]
    ELSE LET f == b.page_table_[page_id]
         IN  IF b.pages_[f].pin_count_ > 0 THEN [b |-> b, ret |-> FALSE]
             ELSE [b |-> [b EXCEPT
                            !.page_table_ = MapDel(@, page_id),
                            !.replacer_ = ReplacerRemove(@, f),
                            !.free_list_ = Append(@, f)],
                   ret |-> TRUE]

\* BufferPoolManagerInstance::DeletePgImp
DeletePgImp(b, page_id) ==
    IF page_id \notin DOMAIN b.page_table_ THEN [b |-> b, ret |-> TRUE]
    ELSE LET f == b.page_table_[page_id]
         IN  IF b.pages_[f].pin_count_ > 0 THEN [b |-> b, ret |-> FALSE]
             ELSE [b |-> [b EXCEPT
                            !.page_table_ = MapDel(@, page_id),
                            !.replacer_ = ReplacerRemove(@, f),
                            !.free_list_ = Append(@, f),
                            !.pages_[f].data_ = ZeroData],
                   ret |-> TRUE]

\* The program has stopped: an assertion failed or a thread waits for itself.
Faulted(b) == b.replacer_.fault # "none"

(***************************************************************************)
(* B+-tree pages.  A node is a record; array_ holds the size entries of    *)
(* the node as <<key, value>> pairs, slot i of the program at array_[i+1]. *)
(* Keys are integers >= 1; the zeroed bytes of a key read as 0.            *)
(***************************************************************************)
IsNode(n) == n.page_type \in {"LEAF", "INTERNAL"}
IsLeafPage(n) == n.page_type = "LEAF"
GetSize(n) == IF IsNode(n) THEN Len(n.array_) ELSE 0
GetMaxSize(n) == IF IsNode(n) THEN n.max_size_ ELSE 0
IsRootPage(n) == IsNode(n) /\ n.parent_page_id_ = INVALID_PAGE_ID

\* BPlusTreePage::GetMinSize
GetMinSize(n) ==
    IF IsLeafPage(n) THEN GetMaxSize(n) \div 2 ELSE (GetMaxSize(n) + 1) \div 2

\* BPlusTreeLeafPage::Init
LeafInit(page_id, parent_id, max_size) ==
    [page_type |-> "LEAF", page_id_ |-> page_id, parent_page_id_ |-> parent_id,
     max_size_ |-> max_size, next_page_id_ |-> INVALID_PAGE_ID, array_ |-> <<>>]

\* BPlusTreeInternalPage::Init
InternalInit(page_id, parent_id, max_size) ==
    [page_type |-> "INTERNAL", page_id_ |-> page_id, parent_page_id_ |-> parent_id,
     max_size_ |-> max_size, array_ |-> <<>>]

KeyAt(n, index) == IF n = ZeroData THEN 0 ELSE n.array_[index + 1][1]
ValueAt(n, index) == IF n = ZeroData THEN 0 ELSE n.array_[index + 1][2]
\* A key written past the size of the node is never read back.
SetKeyAt(n, index, key) ==
    IF index + 1 \in 1 .. Len(n.array_) THEN [n EXCEPT !.array_[index + 1][1] = key] ELSE n

\* std::lower_bound over array_[first .. first + count) with x.first < k
RECURSIVE LowerBound(_, _, _, _)
LowerBound(arr, first, count, k) ==
    IF count <= 0 THEN first
    ELSE LET step == count \div 2
             it == first + step
         IN  IF arr[it + 1][1] < k
             THEN LowerBound(arr, it + 1, count - (step + 1), k)
             ELSE LowerBound(arr, first, step, k)

\* BPlusTreeLeafPage::FindPos and BPlusTreeInternalPage::FindPos
FindPos(n, k) == LowerBound(n.array_, 0, GetSize(n), k)

InsertAt(arr, pos, item) ==
    SubSeq(arr, 1, pos) \o <<item>> \o SubSeq(arr, pos + 1, Len(arr))
RemoveAt(arr, pos) ==
    SubSeq(arr, 1, pos) \o SubSeq(arr, pos + 2, Len(arr))

\* BPlusTreeLeafPage::LookUp
LeafLookUp(n, k) ==
    LET pos == FindPos(n, k)
    IN  IF pos # GetSize(n) /\ KeyAt(n, pos) = k
        THEN [exist |-> TRUE, value |-> ValueAt(n, pos)]
        ELSE [exist |-> FALSE, value |-> 0]

\* BPlusTreeLeafPage::Insert and BPlusTreeInternalPage::Insert
PageInsert(n, key, value) ==
    LET pos == FindPos(n, key)
    IN  IF pos = GetSize(n) THEN [n EXCEPT !.array_ = Append(@, <<key, value>>)]
        ELSE IF KeyAt(n, pos) = key THEN n
        ELSE [n EXCEPT !.array_ = InsertAt(@, pos, <<key, value>>)]

\* BPlusTreeLeafPage::CopyNFrom
LeafCopyNFrom(n, items) == [n EXCEPT !.array_ = @ \o items]

\* BPlusTreeLeafPage::MoveHalfTo
LeafMoveHalfTo(n, siblingNode) ==
    LET midPos == GetMinSize(n)
    IN  [node |-> [n EXCEPT !.array_ = SubSeq(@, 1, midPos)],
         recipient |-> LeafCopyNFrom(siblingNode, SubSeq(n.array_, midPos + 1, Len(n.array_)))]

\* BPlusTreeLeafPage::RemoveAndDeleteRecord
RemoveAndDeleteRecordAtPos(n, key) ==
    LET targetInArray == FindPos(n, key)
    IN  IF targetInArray = GetSize(n) THEN n
        ELSE [n EXCEPT !.array_ = RemoveAt(@, targetInArray)]

RemoveAndDeleteRecord(n, key) ==
    LET targetInArray == FindPos(n, key)
    IN  IF targetInArray = GetSize(n) \/ KeyAt(n, targetInArray) # key THEN n
        ELSE [n EXCEPT !.array_ = RemoveAt(@, targetInArray)]

\* BPlusTreeLeafPage::MoveFirstToEndOf: the entries are shifted down and the
\* size decreased first, and array_[0] is read after that.  The shift leaves
\* the old last entry in its place past the new size.
LeafMoveFirstToEndOf(n, recipient) ==
    LET shifted == Tail(n.array_) \o <<n.array_[Len(n.array_)]>>
    IN  [node |-> [n EXCEPT !.array_ = Tail(@)],
         recipient |-> [recipient EXCEPT !.array_ = Append(@, shifted[1])],
         ok |-> TRUE]

\* BPlusTreeLeafPage::MoveLastToFrontOf: the size is decreased first and
\* array_[GetSize() - 1] is read after that.
LeafMoveLastToFrontOf(n, recipient) ==
    LET newSize == Len(n.array_) - 1
    IN  IF newSize - 1 < 0
        THEN [node |-> n, recipient |-> recipient, ok |-> FALSE]
        ELSE [node |-> [n EXCEPT !.array_ = SubSeq(@, 1, newSize)],
              recipient |-> [recipient EXCEPT !.array_ = <<n.array_[newSize]>> \o @],
              ok |-> TRUE]

\* BPlusTreeLeafPage::MoveAllTo
LeafMoveAllTo(n, recipient) ==
    [node |-> [n EXCEPT !.array_ = <<>>],
     recipient |-> [LeafCopyNFrom(recipient, n.array_)
                      EXCEPT !.next_page_id_ = n.next_page_id_]]

\* BPlusTreeInternalPage::LookUp; pos - 1 = -1 reads before the array.
InternalLookUp(n, k) ==
    LET pos == FindPos(n, k)
    IN  IF pos # GetSize(n) /\ KeyAt(n, pos) = k
        THEN [ok |-> TRUE, child |-> ValueAt(n, pos)]
        ELSE IF pos - 1 >= 0 THEN [ok |-> TRUE, child |-> ValueAt(n, pos - 1)]
        ELSE [ok |-> FALSE, child |-> INVALID_PAGE_ID]

\* BPlusTreeInternalPage::ValueIndex
RECURSIVE FindValue(_, _, _)
FindValue(arr, i, value) ==
    IF i >= Len(arr) THEN Len(arr)
    ELSE IF arr[i + 1][2] = value THEN i
    ELSE FindValue(arr, i + 1, value)

ValueIndex(n, value) == FindValue(n.array_, 0, value)

\* BPlusTreeInternalPage::Remove
InternalRemove(n, index) == [n EXCEPT !.array_ = RemoveAt(@, index)]

(***************************************************************************)
(* The state a tree operation runs on: the pool, root_page_id_, the        *)
(* transaction, the latches, and how the operation stopped the program.    *)
(* 0 is a free latch, -1 one held exclusively, n > 0 one held by n readers.*)
(***************************************************************************)
NoTransaction == [page_set |-> <<>>, deleted_page_set |-> {}]
NoLatches(pool_size) == [root |-> 0, page |-> [f \in 0 .. pool_size - 1 |-> 0]]

Fail(s, why) == IF s.fault = "none" THEN [s EXCEPT !.fault = why] ELSE s
\* The running operation notes a structural step it takes
Did(s, step) == [s EXCEPT !.steps = @ \cup {step}]
Ok(s) == s.fault = "none" /\ ~Faulted(s.b)

NodeAt(s, page) == s.b.pages_[page].data_
\* A write to the bytes of the page in frame `page`.  ghost: the operation
\* notes a write to a page it has not allocated itself and whose latch is
\* not held exclusively.
SetNode(s, page, n) ==
    [s EXCEPT !.b.pages_[page].data_ = n,
              !.steps = IF s.latch.page[page] # -1 /\ page \notin s.fresh
                        THEN @ \cup {"WriteUnlatched"} ELSE @]
GetPageId(s, page) == s.b.pages_[page].page_id_

\* The caller holds root_page_id_latch_ exclusively: it is locked and the
\* nullptr that stands for it is in the page set of the caller's transaction
HoldsRootLatch(s) ==
    /\ s.latch.root = -1
    /\ \E i \in 1 .. Len(s.txn.page_set) : s.txn.page_set[i] = NULL

\* A write to root_page_id_.  ghost: the operation notes the write, and
\* whether it made it without root_page_id_latch_
SetRootPageId(s, page_id) ==
    [s EXCEPT !.root = page_id,
              !.steps = @ \cup IF HoldsRootLatch(s) THEN {"RootWritten"}
                               ELSE {"RootWritten", "RootWrittenUnlatched"}]

\* BPlusTree::IsEmpty
IsEmpty(s) == s.root = INVALID_PAGE_ID

\* BufferPoolManager::FetchPage, NewPage, UnpinPage, DeletePage as the tree calls them
\* held counts, per page id, the pins the pool has given the running
\* operation and the operation has not yet given back.
Gain(held, page_id) ==
    MapPut(held, page_id, IF page_id \in DOMAIN held THEN held[page_id] + 1 ELSE 1)
Released(s, page_id) ==
    IF page_id \in DOMAIN s.held /\ s.held[page_id] > 0
    THEN [s EXCEPT !.held[page_id] = @ - 1]
    ELSE Did(s, "UnpinWithoutPin")
Fetched(s, r, page_id) ==
    [s |-> [s EXCEPT !.b = r.b,
                     !.held = IF r.page # NULL /\ r.b.pages_[r.page].pin_count_
                                                  > s.b.pages_[r.page].pin_count_
                              THEN Gain(@, page_id) ELSE @],
     page |-> r.page]
BpmFetchPage(s, page_id) == Fetched(s, FetchPgImp(s.b, page_id), page_id)
Allocated(s, r) ==
    [s |-> [s EXCEPT !.b = r.b,
                     !.held = IF r.page # NULL THEN Gain(@, r.page_id) ELSE @,
                     !.steps = IF r.page = NULL THEN @ \cup {"NewPageNull"} ELSE @,
                     !.fresh = IF r.page # NULL THEN @ \cup {r.page} ELSE @],
     page |-> r.page, page_id |-> r.page_id]
BpmNewPage(s) == Allocated(s, NewPgImp(s.b))
BpmUnpinPage(s, page_id, is_dirty) ==
    Released([s EXCEPT !.b = UnpinPgImp(s.b, page_id, is_dirty).b], page_id)
\* ghost: the operation notes a DeletePage that returned false
BpmDeletePage(s, page_id) ==
    [s EXCEPT !.b = DeletePgImp(s.b, page_id).b,
              !.steps = IF DeletePgImp(s.b, page_id).ret THEN @
                        ELSE @ \cup {"DeletePageFalse"}]

\* Page::WLatch, WUnlatch, RLatch, RUnlatch of one thread
WLatch(s, page) ==
    IF s.latch.page[page] # 0 THEN Fail(s, "deadlock") ELSE [s EXCEPT !.latch.page[page] = -1]
WUnlatch(s, page) ==
    IF s.latch.page[page] # -1 THEN Fail(s, "unlatch") ELSE [s EXCEPT !.latch.page[page] = 0]
RLatch(s, page) ==
    IF s.latch.page[page] < 0 THEN Fail(s, "deadlock") ELSE [s EXCEPT !.latch.page[page] = @ + 1]
RUnlatch(s, page) ==
    IF s.latch.page[page] <= 0 THEN Fail(s, "unlatch") ELSE [s EXCEPT !.latch.page[page] = @ - 1]

\* root_page_id_latch_
RootWLock(s) == IF s.latch.root # 0 THEN Fail(s, "deadlock") ELSE [s EXCEPT !.latch.root = -1]
RootWUnlock(s) == IF s.latch.root # -1 THEN Fail(s, "unlatch") ELSE [s EXCEPT !.latch.root = 0]
RootRLock(s) == IF s.latch.root < 0 THEN Fail(s, "deadlock") ELSE [s EXCEPT !.latch.root = @ + 1]
RootRUnlock(s) == IF s.latch.root <= 0 THEN Fail(s, "unlatch") ELSE [s EXCEPT !.latch.root = @ - 1]

\* Transaction::AddIntoPageSet, AddIntoDeletedPageSet
AddIntoPageSet(s, page) == [s EXCEPT !.txn.page_set = Append(@, page)]
AddIntoDeletedPageSet(s, page_id) == [s EXCEPT !.txn.deleted_page_set = @ \cup {page_id}]

\* BPlusTree::ReleaseLatchFromQueue
RECURSIVE ReleaseLatchFromQueue(_)
ReleaseLatchFromQueue(s) ==
    IF s.txn.page_set = <<>> THEN s
    ELSE LET page == Head(s.txn.page_set)
             s1 == [s EXCEPT !.txn.page_set = Tail(@)]
         IN  IF page = NULL THEN ReleaseLatchFromQueue(RootWUnlock(s1))
             ELSE ReleaseLatchFromQueue(
                      BpmUnpinPage(WUnlatch(s1, page), GetPageId(s1, page), FALSE))

\* Variant: the root counts as safe whatever its size
SafeRootAlways(operation, node) == TRUE

\* The tests FindLeaf makes before it releases the ancestors' latches
SafeRoot(operation, node) ==
    \/ operation = "DELETE" /\ GetSize(node) > 2
    \/ operation = "INSERT" /\ IsLeafPage(node) /\ GetSize(node) < GetMaxSize(node) - 1
    \/ operation = "INSERT" /\ ~IsLeafPage(node) /\ GetSize(node) < GetMaxSize(node)
\* Variant: a child counts as safe whatever its size
SafeChildAlways(operation, node) == TRUE

SafeChild(operation, node) ==
    \/ operation = "INSERT" /\ IsLeafPage(node) /\ GetSize(node) < GetMaxSize(node) - 1
    \/ operation = "INSERT" /\ ~IsLeafPage(node) /\ GetSize(node) < GetMaxSize(node)
    \/ operation = "DELETE" /\ GetSize(node) > GetMinSize(node)

\* One turn of the while loop of BPlusTree::FindLeaf once the child is
\* fetched (r): latch the child, then release or keep the ancestors
RECURSIVE Descend(_, _, _, _, _, _)
DescendInto(r, page, child_page_id, key, operation, leftMost, rightMost) ==
    LET childPage == r.page
    IN  IF childPage = NULL THEN [s |-> Fail(r.s, "nullptr"), page |-> page]
        ELSE Descend(IF operation = "SEARCH"
                     THEN BpmUnpinPage(RLatch(RUnlatch(r.s, page), childPage),
                                       child_page_id, FALSE)
                     ELSE LET w == AddIntoPageSet(WLatch(r.s, childPage), page)
                          IN  IF SafeChild(operation, NodeAt(r.s, childPage))
                              THEN ReleaseLatchFromQueue(w) ELSE w,
                     childPage, key, operation, leftMost, rightMost)

\* The while loop of BPlusTree::FindLeaf
Descend(s, page, key, operation, leftMost, rightMost) ==
    LET node == NodeAt(s, page)
    IN  IF ~Ok(s) THEN [s |-> s, page |-> page]
        ELSE IF ~IsNode(node) THEN [s |-> Fail(s, "corrupt"), page |-> page]
        ELSE IF IsLeafPage(node) THEN [s |-> s, page |-> page]
        ELSE IF GetSize(node) = 0 THEN [s |-> Fail(s, "out_of_bounds"), page |-> page]
        ELSE
          LET lk == IF leftMost THEN [ok |-> TRUE, child |-> ValueAt(node, 0)]
                    ELSE IF rightMost
                    THEN [ok |-> TRUE, child |-> ValueAt(node, GetSize(node) - 1)]
                    ELSE InternalLookUp(node, key)
          IN  IF ~lk.ok THEN [s |-> Fail(s, "out_of_bounds"), page |-> page]
              ELSE DescendInto(BpmFetchPage(s, lk.child), page, lk.child,
                               key, operation, leftMost, rightMost)

\* BPlusTree::FindLeaf once the root page is fetched (r)
FindLeafFrom(r, key, operation, leftMost, rightMost) ==
    LET page == r.page
    IN  IF page = NULL THEN [s |-> Fail(r.s, "nullptr"), page |-> NULL]
        ELSE Descend(IF operation = "SEARCH" THEN RLatch(RootRUnlock(r.s), page)
                     ELSE LET w == WLatch(r.s, page)
                          IN  IF SafeRoot(operation, NodeAt(r.s, page))
                              THEN ReleaseLatchFromQueue(w) ELSE w,
                     page, key, operation, leftMost, rightMost)

\* BPlusTree::FindLeaf
FindLeaf(s, key, operation, leftMost, rightMost) ==
    IF s.root = INVALID_PAGE_ID THEN [s |-> Fail(s, "assert"), page |-> NULL]
    ELSE FindLeafFrom(BpmFetchPage(s, s.root), key, operation, leftMost, rightMost)

\* BPlusTree::GetValue once the leaf is found (fl)
GetValueIn(fl, key) ==
    LET leafPage == fl.page
    IN  IF ~Ok(fl.s) THEN [s |-> fl.s, ret |-> FALSE, value |-> 0]
        ELSE LET lk == LeafLookUp(NodeAt(fl.s, leafPage), key)
             IN  [s |-> BpmUnpinPage(RUnlatch(fl.s, leafPage), GetPageId(fl.s, leafPage), FALSE),
                  ret |-> lk.exist, value |-> lk.value]

\* BPlusTree::GetValue: no test of IsEmpty before FindLeaf.  A call on the empty
\* tree is noted in the steps.
GetValue(s, key) ==
    GetValueIn(FindLeaf(RootRLock(IF IsEmpty(s) THEN Did(s, "SearchEmpty") ELSE s),
                        key, "SEARCH", FALSE, FALSE), key)

(***************************************************************************)
(* INSERTION                                                               *)
(***************************************************************************)
\* A variant that unpins the moved child without writing its parent id
ReParentFetchedKeepsParent(r, parent_page_id) ==
    IF r.page = NULL THEN Fail(r.s, "nullptr")
    ELSE BpmUnpinPage(r.s, GetPageId(r.s, r.page), TRUE)

\* The moved child, fetched (r), is given its new parent and unpinned dirty
ReParentFetched(r, parent_page_id) ==
    IF r.page = NULL THEN Fail(r.s, "nullptr")
    ELSE IF ~IsNode(NodeAt(r.s, r.page)) THEN Fail(r.s, "corrupt")
    ELSE BpmUnpinPage(
             SetNode(r.s, r.page,
                     [NodeAt(r.s, r.page) EXCEPT !.parent_page_id_ = parent_page_id]),
             GetPageId(r.s, r.page), TRUE)

\* The body of the loop of BPlusTreeInternalPage::CopyNFrom, and the tail of
\* CopyLastFrom and CopyFirstFrom
ReParent(s, child_page_id, parent_page_id) ==
    IF ~Ok(s) THEN s ELSE ReParentFetched(BpmFetchPage(s, child_page_id), parent_page_id)

RECURSIVE ReParentAll(_, _, _)
ReParentAll(s, items, parent_page_id) ==
    IF items = <<>> THEN s
    ELSE ReParentAll(ReParent(s, Head(items)[2], parent_page_id), Tail(items), parent_page_id)

\* BPlusTreeInternalPage::CopyNFrom on the node in frame `page`
InternalCopyNFrom(s, page, items) ==
    ReParentAll(SetNode(s, page, [NodeAt(s, page) EXCEPT !.array_ = @ \o items]),
                items, NodeAt(s, page).page_id_)

\* BPlusTree::StartNewTree once the page is allocated (r)
StartNewTreeIn(r, key, value) ==
    IF r.page = NULL THEN Fail(r.s, "OUT_OF_MEMORY")
    ELSE BpmUnpinPage(
             SetNode(SetRootPageId(r.s, r.page_id), r.page,
                     PageInsert(LeafInit(r.page_id, INVALID_PAGE_ID, LeafMaxSize), key, value)),
             r.page_id, TRUE)

\* BPlusTree::StartNewTree
StartNewTree(s, key, value) == StartNewTreeIn(BpmNewPage(s), key, value)

\* BPlusTree::Split of a leaf once the sibling page is allocated (r)
SplitLeafInto(r, page) ==
    IF r.page = NULL THEN [s |-> Fail(r.s, "nullptr"), page |-> NULL]
    ELSE IF ~IsNode(NodeAt(r.s, page)) THEN [s |-> Fail(r.s, "corrupt"), page |-> NULL]
    ELSE LET leaf == NodeAt(r.s, page)
             m == LeafMoveHalfTo(leaf, LeafInit(r.page_id, leaf.parent_page_id_, LeafMaxSize))
         IN  [s |-> SetNode(SetNode(r.s, r.page, m.recipient), page, m.node),
              page |-> r.page]

\* BPlusTree::Split of the leaf held in frame `page`
SplitLeaf(s, page) == SplitLeafInto(BpmNewPage(s), page)

\* BPlusTree::Split of an internal node once the sibling page is allocated (r):
\* the upper half moves to it (BPlusTreeInternalPage::MoveHalfTo)
SplitInternalInto(r, internal) ==
    IF r.page = NULL THEN [s |-> Fail(r.s, "nullptr"), page |-> NULL, node |-> internal]
    ELSE LET midPos == GetMinSize(internal)
         IN  [s |-> InternalCopyNFrom(
                        SetNode(Did(r.s, "SplitInternal"), r.page,
                                InternalInit(r.page_id, internal.parent_page_id_,
                                             InternalMaxSize)),
                        r.page, SubSeq(internal.array_, midPos + 1, Len(internal.array_))),
              page |-> r.page,
              node |-> [internal EXCEPT !.array_ = SubSeq(@, 1, midPos)]]

\* BPlusTree::Split of the internal node `internal`, the scratch copy of a parent
SplitInternal(s, internal) == SplitInternalInto(BpmNewPage(s), internal)

\* A node in frame `page` is given the parent parent_page_id
SetParentPageId(s, page, parent_page_id) ==
    SetNode(s, page, [NodeAt(s, page) EXCEPT !.parent_page_id_ = parent_page_id])

\* A variant whose new root points to the new sibling from both slots
InsertNewRootDropsOld(r, oldPage, newPage, key) ==
    IF r.page = NULL THEN Fail(r.s, "nullptr")
    ELSE LET rootNode == [InternalInit(r.page_id, INVALID_PAGE_ID, InternalMaxSize)
                            EXCEPT !.array_ = << <<0, NodeAt(r.s, newPage).page_id_>>,
                                                 <<key, NodeAt(r.s, newPage).page_id_>> >>]
         IN  ReleaseLatchFromQueue(
                 BpmUnpinPage(
                     SetParentPageId(
                         SetNode(SetRootPageId(Did(r.s, "NewRoot"), r.page_id),
                                 r.page, rootNode),
                         newPage, r.page_id),
                     r.page_id, TRUE))

\* BPlusTree::InsertIntoParent above a root once the new root page is allocated (r)
InsertNewRoot(r, oldPage, newPage, key) ==
    IF r.page = NULL THEN Fail(r.s, "nullptr")
    ELSE LET rootNode == [InternalInit(r.page_id, INVALID_PAGE_ID, InternalMaxSize)
                            EXCEPT !.array_ = << <<0, NodeAt(r.s, oldPage).page_id_>>,
                                                 <<key, NodeAt(r.s, newPage).page_id_>> >>]
         IN  ReleaseLatchFromQueue(
                 BpmUnpinPage(
                     SetParentPageId(
                         SetParentPageId(
                             SetNode(SetRootPageId(Did(r.s, "NewRoot"), r.page_id),
                                     r.page, rootNode),
                             oldPage, r.page_id),
                         newPage, r.page_id),
                     r.page_id, TRUE))

\* The end of BPlusTree::InsertIntoParent after the parent was split and the
\* call for its sibling returned (s): both halves are unpinned
InsertIntoParentUnpin(s, parentPage, siblingPage) ==
    BpmUnpinPage(BpmUnpinPage(s, GetPageId(s, parentPage), TRUE),
                 NodeAt(s, siblingPage).page_id_, TRUE)

RECURSIVE InsertIntoParent(_, _, _, _)
\* BPlusTree::InsertIntoParent with a full parent once the copy is split (sp)
InsertIntoParentSplit(sp, parentPage) ==
    IF sp.page = NULL THEN sp.s
    ELSE InsertIntoParentUnpin(
             InsertIntoParent(SetNode(sp.s, parentPage, sp.node), parentPage, sp.page,
                              KeyAt(NodeAt(sp.s, sp.page), 0)),
             parentPage, sp.page)

\* BPlusTree::InsertIntoParent below a parent once the parent is fetched (r)
InsertIntoParentAt(r, parentPageId, oldPage, newPage, key) ==
    LET parentPage == r.page
    IN  IF parentPage = NULL THEN Fail(r.s, "nullptr")
        ELSE IF ~IsNode(NodeAt(r.s, parentPage)) THEN Fail(r.s, "corrupt")
        ELSE
          LET parentNode == NodeAt(r.s, parentPage)
              newPageId == NodeAt(r.s, newPage).page_id_
          IN  IF GetSize(parentNode) < InternalMaxSize
              THEN BpmUnpinPage(
                       ReleaseLatchFromQueue(
                           SetParentPageId(
                               SetParentPageId(
                                   SetNode(r.s, parentPage,
                                           PageInsert(parentNode, key, newPageId)),
                                   oldPage, parentNode.page_id_),
                               newPage, parentNode.page_id_)),
                       parentPageId, TRUE)
              ELSE InsertIntoParentSplit(
                       SplitInternal(r.s, PageInsert(parentNode, key, newPageId)),
                       parentPage)

\* BPlusTree::InsertIntoParent; oldPage and newPage are the frames of the nodes
InsertIntoParent(s, oldPage, newPage, key) ==
    IF ~Ok(s) THEN s
    ELSE IF IsRootPage(NodeAt(s, oldPage))
    THEN InsertNewRoot(BpmNewPage(s), oldPage, newPage, key)
    ELSE InsertIntoParentAt(BpmFetchPage(s, NodeAt(s, oldPage).parent_page_id_),
                            NodeAt(s, oldPage).parent_page_id_, oldPage, newPage, key)

\* The end of BPlusTree::InsertIntoLeaf after InsertIntoParent returned (s)
InsertIntoLeafUnpin(s, leafPage, sib) ==
    BpmUnpinPage(
        BpmUnpinPage(WUnlatch(s, leafPage), GetPageId(s, leafPage), TRUE),
        NodeAt(s, sib).page_id_, TRUE)

\* The two leaves are chained: the sibling takes the leaf's successor
LinkSibling(s, leafPage, sib) ==
    SetNode(SetNode(s, sib, [NodeAt(s, sib) EXCEPT
                               !.next_page_id_ = NodeAt(s, leafPage).next_page_id_]),
            leafPage, [NodeAt(s, leafPage) EXCEPT !.next_page_id_ = NodeAt(s, sib).page_id_])

\* BPlusTree::InsertIntoLeaf with a full leaf once the leaf is split (sp)
InsertIntoLeafSplit(sp, leafPage) ==
    IF sp.page = NULL THEN [s |-> sp.s, ret |-> FALSE]
    ELSE [s |-> InsertIntoLeafUnpin(
                    InsertIntoParent(LinkSibling(sp.s, leafPage, sp.page), leafPage, sp.page,
                                     KeyAt(NodeAt(sp.s, sp.page), 0)),
                    leafPage, sp.page),
          ret |-> TRUE]

\* The leaf is released with its ancestors and unpinned
ReleaseLeaf(s, leafPage, is_dirty) ==
    BpmUnpinPage(WUnlatch(ReleaseLatchFromQueue(s), leafPage), GetPageId(s, leafPage), is_dirty)

\* BPlusTree::InsertIntoLeaf once the leaf is found (fl)
InsertIntoLeafAt(fl, key, value) ==
    LET leafPage == fl.page
    IN  IF ~Ok(fl.s) THEN [s |-> fl.s, ret |-> FALSE]
        ELSE
          LET leafNode == NodeAt(fl.s, leafPage)
              lastSize == GetSize(leafNode)
              inserted == PageInsert(leafNode, key, value)
              nowSize == GetSize(inserted)
          IN  IF nowSize = lastSize
              THEN [s |-> ReleaseLeaf(SetNode(fl.s, leafPage, inserted), leafPage, FALSE),
                    ret |-> FALSE]
              ELSE IF nowSize < LeafMaxSize
              THEN [s |-> ReleaseLeaf(SetNode(fl.s, leafPage, inserted), leafPage, TRUE),
                    ret |-> TRUE]
              ELSE InsertIntoLeafSplit(SplitLeaf(SetNode(fl.s, leafPage, inserted), leafPage),
                                       leafPage)

\* BPlusTree::InsertIntoLeaf
InsertIntoLeaf(s, key, value) ==
    InsertIntoLeafAt(FindLeaf(s, key, "INSERT", FALSE, FALSE), key, value)

\* BPlusTree::Insert on an empty tree once StartNewTree returned (s)
InsertedFirst(s) ==
    IF Ok(s) THEN [s |-> ReleaseLatchFromQueue(s), ret |-> TRUE] ELSE [s |-> s, ret |-> FALSE]

\* BPlusTree::Insert
TreeInsert(s, key, value) ==
    IF IsEmpty(s)
    THEN InsertedFirst(StartNewTree(AddIntoPageSet(RootWLock(s), NULL), key, value))
    ELSE InsertIntoLeaf(AddIntoPageSet(RootWLock(s), NULL), key, value)

(***************************************************************************)
(* REMOVE                                                                  *)
(***************************************************************************)
\* UnpinPage(page->GetPageId(), is_dirty)
UnpinFrame(s, page, is_dirty) == BpmUnpinPage(s, GetPageId(s, page), is_dirty)

RemoveFirst(s, page) == SetNode(s, page, [NodeAt(s, page) EXCEPT !.array_ = Tail(@)])
RemoveLast(s, page) ==
    SetNode(s, page, [NodeAt(s, page) EXCEPT !.array_ = SubSeq(@, 1, Len(@) - 1)])
RemoveAll(s, page) == SetNode(s, page, [NodeAt(s, page) EXCEPT !.array_ = <<>>])

\* BPlusTreeInternalPage::MoveFirstToEndOf with CopyLastFrom
InternalMoveFirstToEndOf(s, page, recipient, middle_key) ==
    LET n == SetKeyAt(NodeAt(s, page), 0, middle_key)
        first_item == n.array_[1]
        rec == NodeAt(s, recipient)
    IN  RemoveFirst(
            ReParent(SetNode(SetNode(s, page, n), recipient,
                             [rec EXCEPT !.array_ = Append(@, first_item)]),
                     first_item[2], rec.page_id_),
            page)

\* BPlusTreeInternalPage::MoveLastToFrontOf with CopyFirstFrom
InternalMoveLastToFrontOf(s, page, recipient, middle_key) ==
    LET n == NodeAt(s, page)
        last_item == n.array_[Len(n.array_)]
        rec == SetKeyAt(NodeAt(s, recipient), 0, middle_key)
    IN  RemoveLast(
            ReParent(SetNode(s, recipient, [rec EXCEPT !.array_ = <<last_item>> \o @]),
                     last_item[2], rec.page_id_),
            page)

\* BPlusTreeInternalPage::MoveAllTo
InternalMoveAllTo(s, page, recipient, middle_key) ==
    LET n == SetKeyAt(NodeAt(s, page), 0, middle_key)
    IN  RemoveAll(InternalCopyNFrom(SetNode(s, page, n), recipient, n.array_), page)

\* HeaderPage::UpdateRecord for the index of the tree: the record is changed
\* if the page holds one, and nothing is written if it holds none.
HeaderUpdateRecord(data, root_id) ==
    IF data.page_type = "HEADER" THEN [data EXCEPT !.root_id = root_id] ELSE data

\* HeaderPage::GetRootId for the index of the tree; INVALID_PAGE_ID stands for
\* a page without a record of the index
HeaderGetRootId(data) ==
    IF data.page_type = "HEADER" THEN data.root_id ELSE INVALID_PAGE_ID

\* BPlusTree::UpdateRootPageId(0) once the header page is fetched (r): no
\* record of the index was ever inserted into the header page, so
\* HeaderPage::UpdateRecord finds none to update.
HeaderUpdated(r) ==
    IF r.page = NULL THEN Fail(r.s, "nullptr")
    ELSE BpmUnpinPage(
             [r.s EXCEPT !.b.pages_[r.page].data_ = HeaderUpdateRecord(@, r.s.root)],
             HEADER_PAGE_ID, TRUE)

\* BPlusTree::UpdateRootPageId
UpdateRootPageId(s) == HeaderUpdated(BpmFetchPage(s, HEADER_PAGE_ID))

\* BPlusTree::AdjustRoot for an internal root with one child, once the child is
\* fetched (r): the child becomes the root
PromoteOnlyChild(r) ==
    IF r.page = NULL THEN [s |-> Fail(r.s, "nullptr"), ret |-> FALSE]
    ELSE IF ~IsNode(NodeAt(r.s, r.page)) THEN [s |-> Fail(r.s, "corrupt"), ret |-> FALSE]
    ELSE [s |-> UnpinFrame(
                    UpdateRootPageId(
                        SetRootPageId(
                            SetParentPageId(Did(r.s, "PromoteOnlyChild"), r.page,
                                            INVALID_PAGE_ID),
                            NodeAt(r.s, r.page).page_id_)),
                    r.page, TRUE),
          ret |-> TRUE]

\* BPlusTree::AdjustRoot
AdjustRoot(s, oldRootPage) ==
    LET oldRootNode == NodeAt(s, oldRootPage)
    IN  IF ~IsLeafPage(oldRootNode) /\ GetSize(oldRootNode) = 1
        THEN PromoteOnlyChild(BpmFetchPage(s, ValueAt(oldRootNode, 0)))
        ELSE IF IsLeafPage(oldRootNode) /\ GetSize(oldRootNode) = 0
        THEN [s |-> SetRootPageId(s, INVALID_PAGE_ID), ret |-> TRUE]
        ELSE [s |-> s, ret |-> FALSE]

\* parent->SetKeyAt(index, from->KeyAt(0))
SetParentKey(s, parent, index, from) ==
    SetNode(s, parent, SetKeyAt(NodeAt(s, parent), index, KeyAt(NodeAt(s, from), 0)))

\* The two leaves of a move m are written back to their frames
LeafMoved(s, from, to, m) == SetNode(SetNode(s, from, m.node), to, m.recipient)

\* BPlusTree::Redistribute
Redistribute(s, neighbor, node, parent, index, from_prev) ==
    IF IsLeafPage(NodeAt(s, node))
    THEN IF ~from_prev
         THEN SetParentKey(
                  LeafMoved(s, neighbor, node,
                            LeafMoveFirstToEndOf(NodeAt(s, neighbor), NodeAt(s, node))),
                  parent, index + 1, neighbor)
         ELSE IF ~LeafMoveLastToFrontOf(NodeAt(s, neighbor), NodeAt(s, node)).ok
         THEN Fail(s, "out_of_bounds")
         ELSE SetParentKey(
                  LeafMoved(s, neighbor, node,
                            LeafMoveLastToFrontOf(NodeAt(s, neighbor), NodeAt(s, node))),
                  parent, index, node)
    ELSE IF ~from_prev
         THEN SetParentKey(
                  InternalMoveFirstToEndOf(Did(s, "RedistributeInternalFromNext"), neighbor, node,
                                           KeyAt(NodeAt(s, parent), index + 1)),
                  parent, index + 1, neighbor)
         ELSE SetParentKey(
                  InternalMoveLastToFrontOf(Did(s, "RedistributeInternalFromPrev"), neighbor,
                                            node, KeyAt(NodeAt(s, parent), index)),
                  parent, index, node)

\* parent->Remove(index)
RemoveFromParent(s, parent, index) ==
    SetNode(s, parent, InternalRemove(NodeAt(s, parent), index))

\* BPlusTree::CoalesceOrRedistribute and BPlusTree::Coalesce, which call each other
RECURSIVE CoalesceOrRedistribute(_, _)
Coalesce(s, neighbor_node, node, parent, index) ==
    CoalesceOrRedistribute(
        RemoveFromParent(
            IF IsLeafPage(NodeAt(s, node))
            THEN LeafMoved(s, node, neighbor_node,
                           LeafMoveAllTo(NodeAt(s, node), NodeAt(s, neighbor_node)))
            ELSE InternalMoveAllTo(Did(s, "CoalesceInternal"), node, neighbor_node,
                                   KeyAt(NodeAt(s, parent), index)),
            parent, index),
        parent)

\* The end of a branch of CoalesceOrRedistribute: the parent is unpinned, the
\* sibling unlatched and unpinned
UnpinParentAndSibling(s, parentPage, siblingPage) ==
    UnpinFrame(WUnlatch(UnpinFrame(s, parentPage, TRUE), siblingPage), siblingPage, TRUE)

\* transaction->AddIntoDeletedPageSet(node->GetPageId()) if marked
MarkDeleted(s, page, marked) ==
    IF marked THEN AddIntoDeletedPageSet(s, NodeAt(s, page).page_id_) ELSE s

\* CoalesceOrRedistribute after the node was merged into its previous sibling (c)
CoalescedIntoPrev(c, parentPage, siblingPage) ==
    [s |-> UnpinParentAndSibling(MarkDeleted(c.s, parentPage, c.ret), parentPage, siblingPage),
     ret |-> TRUE]

\* CoalesceOrRedistribute after the next sibling was merged into the node (c)
CoalescedFromNext(c, parentPage, siblingPage) ==
    [s |-> UnpinParentAndSibling(
               MarkDeleted(MarkDeleted(c.s, siblingPage, TRUE), parentPage, c.ret),
               parentPage, siblingPage),
     ret |-> FALSE]

\* CoalesceOrRedistribute once the sibling is fetched (rs)
RebalanceWith(rs, node, parentPage, idx, fromPrev) ==
    LET siblingPage == rs.page
    IN  IF siblingPage = NULL THEN [s |-> Fail(rs.s, "nullptr"), ret |-> FALSE]
        ELSE IF NodeAt(rs.s, siblingPage).page_type # NodeAt(rs.s, node).page_type
        THEN [s |-> Fail(rs.s, "corrupt"), ret |-> FALSE]
        ELSE
          LET s1 == WLatch(rs.s, siblingPage)
              siblingNode == NodeAt(rs.s, siblingPage)
          IN  IF GetSize(siblingNode) > GetMinSize(siblingNode)
              THEN [s |-> UnpinParentAndSibling(
                              ReleaseLatchFromQueue(
                                  Redistribute(s1, siblingPage, node, parentPage, idx, fromPrev)),
                              parentPage, siblingPage),
                    ret |-> FALSE]
              ELSE IF fromPrev
              THEN CoalescedIntoPrev(Coalesce(s1, siblingPage, node, parentPage, idx),
                                     parentPage, siblingPage)
              ELSE CoalescedFromNext(
                       Coalesce(s1, node, siblingPage, parentPage,
                                ValueIndex(NodeAt(rs.s, parentPage), siblingNode.page_id_)),
                       parentPage, siblingPage)

\* CoalesceOrRedistribute once the parent is fetched (rp)
RebalanceUnder(rp, node) ==
    LET parentPage == rp.page
    IN  IF parentPage = NULL THEN [s |-> Fail(rp.s, "nullptr"), ret |-> FALSE]
        ELSE IF NodeAt(rp.s, parentPage).page_type # "INTERNAL"
        THEN [s |-> Fail(rp.s, "corrupt"), ret |-> FALSE]
        ELSE
          LET parentNode == NodeAt(rp.s, parentPage)
              idx == ValueIndex(parentNode, NodeAt(rp.s, node).page_id_)
              fromPrev == idx > 0
              sibIdx == IF fromPrev THEN idx - 1 ELSE idx + 1
          IN  IF ~fromPrev /\ idx = GetSize(parentNode) - 1
              THEN [s |-> rp.s, ret |-> FALSE]
              ELSE IF sibIdx >= GetSize(parentNode)
              THEN [s |-> Fail(rp.s, "out_of_bounds"), ret |-> FALSE]
              ELSE RebalanceWith(BpmFetchPage(rp.s, ValueAt(parentNode, sibIdx)),
                                 node, parentPage, idx, fromPrev)

\* CoalesceOrRedistribute on the root once AdjustRoot returned (a)
RootAdjusted(a) == [s |-> ReleaseLatchFromQueue(a.s), ret |-> a.ret]

CoalesceOrRedistribute(s, node) ==
    IF ~Ok(s) THEN [s |-> s, ret |-> FALSE]
    ELSE IF IsRootPage(NodeAt(s, node)) THEN RootAdjusted(AdjustRoot(s, node))
    ELSE IF GetSize(NodeAt(s, node)) >= GetMinSize(NodeAt(s, node))
    THEN [s |-> ReleaseLatchFromQueue(s), ret |-> FALSE]
    ELSE RebalanceUnder(BpmFetchPage(s, NodeAt(s, node).parent_page_id_), node)

\* The loop of BPlusTree::Remove over the deleted page set, in page id order
RECURSIVE DeletePages(_, _)
DeletePages(s, ids) ==
    IF ids = {} THEN s
    ELSE LET id == CHOOSE x \in ids : \A y \in ids : x <= y
         IN  DeletePages(BpmDeletePage(s, id), ids \ {id})

\* Variant: the set is cleared and no page deleted
DeleteMarkedOnlyClears(s) == [s EXCEPT !.txn.deleted_page_set = {}]

\* The end of BPlusTree::Remove: the marked pages are deleted, the set cleared
DeleteMarked(s) ==
    [DeletePages(s, s.txn.deleted_page_set) EXCEPT !.txn.deleted_page_set = {}]

\* BPlusTree::Remove once CoalesceOrRedistribute returned (c)
RemoveRebalanced(c, leafPage) ==
    IF ~Ok(c.s) THEN c.s
    ELSE DeleteMarked(
             UnpinFrame(MarkDeleted(WUnlatch(c.s, leafPage), leafPage, c.ret), leafPage, TRUE))

\* BPlusTree::Remove once the leaf is found (fl).  The comparison
\* node->GetSize() == node->RemoveAndDeleteRecord(..) reads the size before the
\* removal (sizeFirst) or after it, as the build orders the two operands.
RemoveFromLeaf(fl, key, sizeFirst) ==
    LET leafPage == fl.page
    IN  IF ~Ok(fl.s) THEN fl.s
        ELSE
          LET before == NodeAt(fl.s, leafPage)
              removed == RemoveAndDeleteRecord(before, key)
              sizeRead == IF sizeFirst THEN GetSize(before) ELSE GetSize(removed)
          IN  IF sizeRead = GetSize(removed)
              THEN ReleaseLeaf(SetNode(fl.s, leafPage, removed), leafPage, FALSE)
              ELSE RemoveRebalanced(
                       CoalesceOrRedistribute(SetNode(fl.s, leafPage, removed), leafPage),
                       leafPage)

\* BPlusTree::Remove
TreeRemove(s, key, sizeFirst) ==
    IF IsEmpty(s) THEN ReleaseLatchFromQueue(AddIntoPageSet(RootWLock(s), NULL))
    ELSE RemoveFromLeaf(FindLeaf(AddIntoPageSet(RootWLock(s), NULL), key, "DELETE", FALSE, FALSE),
                        key, sizeFirst)

(***************************************************************************)
(* The buffer pool on its own: callers issue the public operations in any  *)
(* order on a pool of PoolFrames frames.                                   *)
(***************************************************************************)

PoolInit ==
    /\ pool = BufferPoolManagerInstance(PoolFrames, ReplacerK)
    /\ root_page_id_ = INVALID_PAGE_ID
    /\ transaction = NoTransaction
    /\ latches = NoLatches(PoolFrames)
    /\ fault = "none"
    /\ sizeReadFirst = TRUE
    /\ table = <<>>
    /\ threads = <<>>
    /\ replacer = LRUKReplacer(0, ReplacerK)
    /\ last = [op |-> "Init"]

PageIds == 0 .. MaxPageId - 1

Resident(b, page_id) == page_id \in DOMAIN b.page_table_

\* The page id of the dirty victim an acquisition in b writes back, if any
WrittenBack(b) ==
    IF b.free_list_ = <<>> /\ Evict(b.replacer_).ok
          /\ b.pages_[Evict(b.replacer_).frame_id].is_dirty_
    THEN b.pages_[Evict(b.replacer_).frame_id].page_id_
    ELSE INVALID_PAGE_ID

NewPage ==
    /\ ~Faulted(pool) /\ fault = "none"
    /\ pool.next_page_id_ < MaxPageId
    /\ pool.replacer_.current_timestamp_ < MaxTimestamp
    /\ LET r == NewPgImp(pool)
       IN  /\ pool' = r.b
           /\ last' = [op |-> "NewPage", page_id |-> r.page_id, page |-> r.page,
                       victim |-> WrittenBack(pool),
                       pin_before |-> IF r.page = NULL THEN 0
                                      ELSE pool.pages_[r.page].pin_count_]
    /\ UNCHANGED <<root_page_id_, transaction, latches, fault, sizeReadFirst, table, threads, replacer>>

FetchPage(page_id) ==
    /\ ~Faulted(pool) /\ fault = "none"
    /\ page_id < pool.next_page_id_
    /\ pool.replacer_.current_timestamp_ < MaxTimestamp
    /\ LET r == FetchPgImp(pool, page_id)
       IN  /\ pool' = r.b
           /\ last' = [op |-> "FetchPage", page_id |-> page_id, page |-> r.page,
                       victim |-> IF Resident(pool, page_id) THEN INVALID_PAGE_ID
                                  ELSE WrittenBack(pool),
                       was_resident |-> Resident(pool, page_id),
                       pin_before |-> IF r.page = NULL THEN 0
                                      ELSE pool.pages_[r.page].pin_count_]
    /\ UNCHANGED <<root_page_id_, transaction, latches, fault, sizeReadFirst, table, threads, replacer>>

\* Variant: a rejected unpin still stores the caller's dirty flag
UnpinPageRejectedMarks(page_id, is_dirty) ==
    /\ ~Faulted(pool) /\ fault = "none"
    /\ LET r == UnpinPgImp(pool, page_id, is_dirty)
       IN  /\ pool' = IF ~r.ret /\ Resident(pool, page_id)
                       THEN [pool EXCEPT !.pages_[pool.page_table_[page_id]].is_dirty_ = is_dirty]
                       ELSE r.b
           /\ last' = [op |-> "UnpinPage", page_id |-> page_id, is_dirty |-> is_dirty,
                       ret |-> r.ret,
                       dirty_before |-> IF Resident(pool, page_id)
                                        THEN pool.pages_[pool.page_table_[page_id]].is_dirty_
                                        ELSE FALSE]
    /\ UNCHANGED <<root_page_id_, transaction, latches, fault, sizeReadFirst, table, threads, replacer>>

UnpinPage(page_id, is_dirty) ==
    /\ ~Faulted(pool) /\ fault = "none"
    /\ LET r == UnpinPgImp(pool, page_id, is_dirty)
       IN  /\ pool' = r.b
           /\ last' = [op |-> "UnpinPage", page_id |-> page_id, is_dirty |-> is_dirty,
                       ret |-> r.ret,
                       dirty_before |-> IF Resident(pool, page_id)
                                        THEN pool.pages_[pool.page_table_[page_id]].is_dirty_
                                        ELSE FALSE]
    /\ UNCHANGED <<root_page_id_, transaction, latches, fault, sizeReadFirst, table, threads, replacer>>

FlushPage(page_id) ==
    /\ ~Faulted(pool) /\ fault = "none"
    /\ LET r == FlushPgImp(pool, page_id)
       IN  /\ pool' = r.b
           /\ last' = [op |-> "FlushPage", page_id |-> page_id, ret |-> r.ret]
    /\ UNCHANGED <<root_page_id_, transaction, latches, fault, sizeReadFirst, table, threads, replacer>>

DeletePage(page_id) ==
    /\ ~Faulted(pool) /\ fault = "none"
    /\ LET r == DeletePgImp(pool, page_id)
       IN  /\ pool' = r.b
           /\ last' = [op |-> "DeletePage", page_id |-> page_id, ret |-> r.ret]
    /\ UNCHANGED <<root_page_id_, transaction, latches, fault, sizeReadFirst, table, threads, replacer>>

FlushAllPages(relocked) ==
    /\ ~Faulted(pool) /\ fault = "none"
    /\ LET r == FlushAllPgsImp(pool, relocked)
       IN  /\ pool' = r.b
           /\ fault' = IF r.returned THEN fault ELSE "deadlock"
           /\ last' = [op |-> "FlushAllPages", returned |-> r.returned]
    /\ UNCHANGED <<root_page_id_, transaction, latches, sizeReadFirst, table, threads, replacer>>

\* The holder of a pin writes into the page through Page::GetData; the bytes
\* written are the page's own content, told apart from the zeroes of a
\* cleared frame and from the content of any other page.
PageBytes(page_id) == [page_type |-> "DATA", bytes |-> page_id]

WriteData(page_id) ==
    /\ ~Faulted(pool) /\ fault = "none"
    /\ Resident(pool, page_id)
    /\ pool.pages_[pool.page_table_[page_id]].pin_count_ > 0
    /\ pool.pages_[pool.page_table_[page_id]].data_ # PageBytes(page_id)
    /\ pool' = [pool EXCEPT !.pages_[pool.page_table_[page_id]].data_ = PageBytes(page_id)]
    /\ last' = [op |-> "WriteData", page_id |-> page_id]
    /\ UNCHANGED <<root_page_id_, transaction, latches, fault, sizeReadFirst, table, threads, replacer>>

PoolNext ==
    \/ NewPage
    \/ \E p \in PageIds : WriteData(p)
    \/ \E p \in PageIds : FetchPage(p)
    \/ \E p \in PageIds, d \in BOOLEAN : UnpinPage(p, d)
    \/ \E p \in PageIds : FlushPage(p)
    \/ \E relocked \in BOOLEAN : FlushAllPages(relocked)
    \/ \E p \in PageIds : DeletePage(p)

SpecPool == PoolInit /\ [][PoolNext]_vars

(***************************************************************************)
(* Claims about the buffer pool.                                           *)
(***************************************************************************)

\* C1: every FetchPage(p) that returns a frame has raised the pin count of the
\* frame holding p by exactly one, on a page-table hit and on a load from disk.
C1_FetchAddsOnePin ==
    (last.op = "FetchPage" /\ last.page # NULL)
        => pool.pages_[last.page].pin_count_ = last.pin_before + 1

\* C2: after FetchPage(p) returned the frame of a page that was resident with
\* pin count 0, the replacer holds that frame as non-evictable.
C2_FetchedFrameNotEvictable ==
    (last.op = "FetchPage" /\ last.page # NULL /\ last.was_resident /\ last.pin_before = 0)
        => /\ last.page \in DOMAIN pool.replacer_.frameEvictable
           /\ ~pool.replacer_.frameEvictable[last.page]

\* C3: a successful UnpinPage(p, is_dirty) leaves the dirty flag of p's frame
\* at (its value before) OR is_dirty.
C3_UnpinOrsDirty ==
    (last.op = "UnpinPage" /\ last.ret)
        => pool.pages_[pool.page_table_[last.page_id]].is_dirty_
             = (last.dirty_before \/ last.is_dirty)

\* What the claims about the pool's frames speak of
Frames == 0 .. PoolFrames - 1
\* The acquisition of a frame in b has to take a victim, and the victim
NeedsVictim(b) == b.free_list_ = <<>> /\ Evict(b.replacer_).ok
VictimFrame(b) == Evict(b.replacer_).frame_id
\* No frame can be had in b: the free list is empty and nothing is evictable
NoFrameLeft(b) ==
    /\ b.free_list_ = <<>>
    /\ \A f \in DOMAIN b.replacer_.frameEvictable : ~b.replacer_.frameEvictable[f]
\* The step is a NewPage, or a FetchPage of a page that was not resident
AcquiringStep ==
    \/ last'.op = "NewPage"
    \/ last'.op = "FetchPage" /\ ~Resident(pool, last'.page_id)
OnFreeList(b, f) == \E i \in 1 .. Len(b.free_list_) : b.free_list_[i] = f
Mapped(b, f) == \E p \in DOMAIN b.page_table_ : b.page_table_[p] = f
Tracked(b, f) == f \in DOMAIN b.replacer_.frameEvictable
EvictableFrame(b, f) == Tracked(b, f) /\ b.replacer_.frameEvictable[f]

\* C15: every frame of the pool is in exactly one of three conditions: on the
\* free list (not mapped, unknown to the replacer); mapped with pin_count > 0
\* and non-evictable; mapped with pin_count = 0 and evictable.  So the frame
\* Evict would return is never pinned.
C15_FrameConditions ==
    ~Faulted(pool) =>
        /\ \A f \in Frames :
               \/ OnFreeList(pool, f) /\ ~Mapped(pool, f) /\ ~Tracked(pool, f)
               \/ /\ ~OnFreeList(pool, f) /\ Mapped(pool, f) /\ Tracked(pool, f)
                  /\ pool.pages_[f].pin_count_ > 0 /\ ~EvictableFrame(pool, f)
               \/ /\ ~OnFreeList(pool, f) /\ Mapped(pool, f)
                  /\ pool.pages_[f].pin_count_ = 0 /\ EvictableFrame(pool, f)
        /\ Evict(pool.replacer_).ok
               => pool.pages_[Evict(pool.replacer_).frame_id].pin_count_ = 0
\* Both frames mapped, one pinned and one evictable, after an eviction
C15_Witness ==
    /\ ~Faulted(pool) /\ fault = "none"
    /\ \E f, g \in Frames :
           /\ Mapped(pool, f) /\ pool.pages_[f].pin_count_ > 0
           /\ Mapped(pool, g) /\ EvictableFrame(pool, g)
    /\ DOMAIN pool.disk # {}

\* C16: the page table is injective, and the frame a page id maps to stores
\* that page id.
C16_PageTableInjective ==
    ~Faulted(pool) =>
        /\ \A p, q \in DOMAIN pool.page_table_ :
               pool.page_table_[p] = pool.page_table_[q] => p = q
        /\ \A p \in DOMAIN pool.page_table_ :
               /\ pool.page_table_[p] \in Frames
               /\ pool.pages_[pool.page_table_[p]].page_id_ = p
\* Both frames hold pages, one of them loaded into a frame that held another
C16_Witness ==
    /\ ~Faulted(pool) /\ fault = "none"
    /\ Cardinality(DOMAIN pool.page_table_) = PoolFrames
    /\ last.op = "FetchPage" /\ last.page # NULL /\ ~last.was_resident

\* C17: every frame is on the free list or the image of a page id in the
\* page table, never both and never neither, and occurs at most once on the
\* free list.
C17_FreeOrMapped ==
    ~Faulted(pool) =>
        /\ \A f \in Frames : OnFreeList(pool, f) <=> ~Mapped(pool, f)
        /\ \A i, j \in 1 .. Len(pool.free_list_) :
               pool.free_list_[i] = pool.free_list_[j] => i = j
        /\ \A i \in 1 .. Len(pool.free_list_) : pool.free_list_[i] \in Frames
\* A frame is back on the free list after DeletePage, the other is mapped
C17_Witness ==
    /\ ~Faulted(pool) /\ fault = "none"
    /\ last.op = "DeletePage" /\ last.ret
    /\ Len(pool.free_list_) = 1 /\ Cardinality(DOMAIN pool.page_table_) = 1

\* C18: when NewPage or FetchPage reuses a victim frame whose dirty flag is
\* set, the victim's bytes (as they were before the frame was cleared) are on
\* disk under the victim's old page id, the old id is unmapped, and the frame
\* is mapped to the new page id.
C18_DirtyVictimWrittenBack ==
    [][(AcquiringStep /\ NeedsVictim(pool)
            /\ pool.pages_[VictimFrame(pool)].is_dirty_)
        => LET f == VictimFrame(pool)
               lastPageId == pool.pages_[f].page_id_
           IN  /\ lastPageId \in DOMAIN pool'.disk
               /\ pool'.disk[lastPageId] = pool.pages_[f].data_
               /\ lastPageId \notin DOMAIN pool'.page_table_
               /\ pool'.page_table_[last'.page_id] = f
               /\ ~pool'.pages_[f].is_dirty_
               /\ last'.page = f]_vars
\* A written, dirty page has just been evicted by NewPage or FetchPage and
\* its bytes are on disk
C18_Witness ==
    /\ last.op \in {"NewPage", "FetchPage"}
    /\ last.page # NULL
    /\ last.victim # INVALID_PAGE_ID
    /\ last.victim \in DOMAIN pool.disk
    /\ pool.disk[last.victim] = PageBytes(last.victim)

\* C19: NewPage, and FetchPage of a non-resident page, return null exactly
\* when the free list is empty and the replacer has no evictable frame; a
\* null return leaves page table, free list, frame metadata and replacer as
\* they were.
C19_NullIffNoFrame ==
    [][AcquiringStep
        => /\ (last'.page = NULL) <=> NoFrameLeft(pool)
           /\ last'.page = NULL
                 => /\ pool'.page_table_ = pool.page_table_
                    /\ pool'.free_list_ = pool.free_list_
                    /\ pool'.pages_ = pool.pages_
                    /\ pool'.replacer_ = pool.replacer_]_vars
\* A FetchPage of an evicted page found every frame pinned
C19_Witness ==
    /\ last.op = "FetchPage" /\ last.page = NULL /\ ~last.was_resident
    /\ \A f \in Frames : pool.pages_[f].pin_count_ > 0

\* C20: DeletePage of a resident page with pin_count 0 returns true, and
\* afterwards the page is not in the page table, its frame is on the free
\* list, unknown to the replacer and cleared; DeletePage of a non-resident
\* page returns true and changes nothing.
C20_DeletePage ==
    [][last'.op = "DeletePage"
        => LET p == last'.page_id
           IN  /\ (Resident(pool, p) /\ pool.pages_[pool.page_table_[p]].pin_count_ = 0)
                    => /\ last'.ret
                       /\ ~Resident(pool', p)
                       /\ OnFreeList(pool', pool.page_table_[p])
                       /\ ~Tracked(pool', pool.page_table_[p])
                       /\ pool'.pages_[pool.page_table_[p]].data_ = ZeroData
               /\ ~Resident(pool, p) => last'.ret /\ pool' = pool]_vars
\* A page that had been written was deleted, and deleted once more
C20_Witness ==
    /\ last.op = "DeletePage" /\ last.ret
    /\ ~Resident(pool, last.page_id)
    /\ \E f \in Frames : OnFreeList(pool, f) /\ pool.pages_[f].page_id_ = last.page_id
    /\ last.page_id \in DOMAIN pool.disk

\* The page p is resident in b and some caller holds a pin on it
Pinned(b, p) == Resident(b, p) /\ b.pages_[b.page_table_[p]].pin_count_ > 0

\* C21: invalid requests are rejected without effect: UnpinPage(p, d) returns
\* false and changes nothing of the pool when p is not resident or its pin
\* count is already 0, and DeletePage(p) returns false and changes nothing
\* when p is resident with a pin count above 0.
C21_InvalidRequestsRejected ==
    [][/\ (last'.op = "UnpinPage" /\ ~Pinned(pool, last'.page_id))
             => ~last'.ret /\ pool' = pool
       /\ (last'.op = "DeletePage" /\ Pinned(pool, last'.page_id))
             => ~last'.ret /\ pool' = pool]_vars
\* An unpin of a resident, dirty page nobody pins has just been rejected; the
\* page is still dirty, and the other frame holds a pinned page
C21_Witness ==
    /\ last.op = "UnpinPage" /\ ~last.ret /\ ~last.is_dirty
    /\ Resident(pool, last.page_id)
    /\ pool.pages_[pool.page_table_[last.page_id]].is_dirty_
    /\ \E p \in PageIds : Pinned(pool, p)

\* C22: FlushAllPages always terminates, and when it returns every resident
\* page is on disk with the bytes of its frame and its dirty flag is cleared.
C22_FlushAllPages ==
    last.op = "FlushAllPages" =>
        /\ last.returned /\ fault = "none"
        /\ \A p \in DOMAIN pool.page_table_ :
               /\ p \in DOMAIN pool.disk
               /\ pool.disk[p] = pool.pages_[pool.page_table_[p]].data_
               /\ ~pool.pages_[pool.page_table_[p]].is_dirty_

(***************************************************************************)
(* The replacer on its own: a caller issues RecordAccess, SetEvictable,    *)
(* Remove and Evict in any order on a replacer of ReplFrames frames.  The  *)
(* range check of RecordAccess lets the frame ids 0 .. ReplFrames through. *)
(***************************************************************************)
ReplFrameIds == 0 .. ReplFrames + 1

ReplInit ==
    /\ replacer = LRUKReplacer(ReplFrames, ReplacerK)
    /\ pool = BufferPoolManagerInstance(0, ReplacerK)
    /\ root_page_id_ = INVALID_PAGE_ID
    /\ transaction = NoTransaction
    /\ latches = NoLatches(0)
    /\ fault = "none"
    /\ sizeReadFirst = TRUE
    /\ table = <<>>
    /\ threads = <<>>
    /\ last = [op |-> "Init"]

\* The orders in which an iteration can meet the frames of the set S
Orders(S) ==
    {o \in [1 .. Cardinality(S) -> S] : \A i, j \in DOMAIN o : o[i] = o[j] => i = j}

\* The replacer is full and does not know the frame: RecordAccess calls Evict
FullFor(r, frame_id) ==
    /\ frame_id >= 0 /\ frame_id <= r.replacer_size_
    /\ Cardinality(DOMAIN r.frameRecords) = r.replacer_size_
    /\ frame_id \notin DOMAIN r.frameRecords

ReplRecordAccess(frame_id, relocked) ==
    /\ replacer.fault = "none"
    /\ replacer.current_timestamp_ < MaxReplTimestamp
    /\ replacer' = IF relocked /\ FullFor(replacer, frame_id)
                   THEN RecordAccessRelocked(replacer, frame_id)
                   ELSE RecordAccess(replacer, frame_id)
    /\ last' = [op |-> "RecordAccess", frame_id |-> frame_id,
                full |-> FullFor(replacer, frame_id)]
    /\ UNCHANGED <<pool, root_page_id_, transaction, latches, fault, sizeReadFirst, table, threads>>

ReplSetEvictable(frame_id, set_evictable) ==
    /\ replacer.fault = "none"
    /\ replacer' = SetEvictable(replacer, frame_id, set_evictable)
    /\ last' = [op |-> "SetEvictable"]
    /\ UNCHANGED <<pool, root_page_id_, transaction, latches, fault, sizeReadFirst, table, threads>>

ReplRemove(frame_id) ==
    /\ replacer.fault = "none"
    /\ replacer' = ReplacerRemove(replacer, frame_id)
    /\ last' = [op |-> "Remove"]
    /\ UNCHANGED <<pool, root_page_id_, transaction, latches, fault, sizeReadFirst, table, threads>>

ReplEvict(order) ==
    /\ replacer.fault = "none"
    /\ LET e == EvictFound(replacer, EvictScan(replacer, order))
       IN  /\ replacer' = e.r
           /\ last' = [op |-> "Evict", frame_id |-> e.frame_id, ok |-> e.ok]
    /\ UNCHANGED <<pool, root_page_id_, transaction, latches, fault, sizeReadFirst, table, threads>>

ReplNext ==
    \/ \E f \in ReplFrameIds, relocked \in BOOLEAN : ReplRecordAccess(f, relocked)
    \/ \E f \in ReplFrameIds, e \in BOOLEAN : ReplSetEvictable(f, e)
    \/ \E f \in ReplFrameIds : ReplRemove(f)
    \/ \E order \in Orders(DOMAIN replacer.frameRecords) : ReplEvict(order)

SpecReplacer == ReplInit /\ [][ReplNext]_vars


(***************************************************************************)
(* Claims about the replacer.                                              *)
(***************************************************************************)
\* The reference LRU-K chooser.  A frame with fewer than k_ recorded accesses
\* has an infinite backward K-distance; among such frames the one with the
\* earliest oldest access goes first, and if there is none the frame whose
\* k_-th most recent access is the earliest.
Evictables(r) == {f \in DOMAIN r.frameEvictable : r.frameEvictable[f]}
UnderK(r, f) == Len(r.frameRecords[f]) < r.k_
OldestAccess(r, f) == r.frameRecords[f][1]
KthRecentAccess(r, f) == r.frameRecords[f][Len(r.frameRecords[f]) - r.k_ + 1]
LRUKVictims(r) ==
    LET under == {f \in Evictables(r) : UnderK(r, f)}
    IN  IF under # {}
        THEN {f \in under : \A g \in under : OldestAccess(r, f) <= OldestAccess(r, g)}
        ELSE {f \in Evictables(r) :
                \A g \in Evictables(r) : KthRecentAccess(r, f) <= KthRecentAccess(r, g)}

\* C23: Evict returns false iff no tracked frame is evictable, and then
\* changes nothing; otherwise it returns the frame the reference LRU-K chooser
\* picks, in whatever order the scan meets the frames, and that frame is no
\* longer tracked.
C23_EvictIsLRUK ==
    [][last'.op = "Evict"
        => /\ last'.ok <=> (Evictables(replacer) # {})
           /\ ~last'.ok => replacer' = replacer
           /\ last'.ok =>
                 /\ last'.frame_id \in LRUKVictims(replacer)
                 /\ last'.frame_id = EvictChoice(replacer)
                 /\ last'.frame_id \notin DOMAIN replacer'.frameRecords
                 /\ last'.frame_id \notin DOMAIN replacer'.frameEvictable]_vars
\* Evict has taken a frame with fewer than k_ accesses although an evictable
\* frame with k_ accesses, the first of them the oldest of all, is tracked
C23_Witness ==
    /\ last.op = "Evict" /\ last.ok
    /\ \E g \in Evictables(replacer) :
           ~UnderK(replacer, g) /\ OldestAccess(replacer, g) = 1
    /\ Cardinality(DOMAIN replacer.frameRecords) = 2

\* C24: after any sequence of RecordAccess, SetEvictable, Remove and Evict
\* calls Size() is the number of tracked frames whose evictable flag is true,
\* and the count never goes below zero.
C24_SizeCountsEvictable ==
    /\ ReplacerSize(replacer) = Cardinality(Evictables(replacer))
    /\ ReplacerSize(replacer) >= 0
\* After an Evict one evictable frame is left beside a frame that was set
\* non-evictable
C24_Witness ==
    /\ last.op = "Evict" /\ last.ok
    /\ ReplacerSize(replacer) = 1
    /\ \E f \in DOMAIN replacer.frameEvictable : ~replacer.frameEvictable[f]

\* C25: RecordAccess(f) returns; for an f its range check accepts, unknown to
\* a replacer that tracks replacer_size_ frames, it evicts at most one frame,
\* admits f as evictable with one access in its history, and has released
\* the latch.
C25_RecordAccessWhenFull ==
    (last.op = "RecordAccess" /\ last.full) =>
        /\ replacer.fault = "none"
        /\ last.frame_id \in Evictables(replacer)
        /\ Len(replacer.frameRecords[last.frame_id]) = 1
        /\ Cardinality(DOMAIN replacer.frameRecords) >= replacer.replacer_size_

(***************************************************************************)
(* The tree used by one thread: Insert, Remove and GetValue in any order,  *)
(* on a pool that holds every page the run allocates, so that no frame is  *)
(* ever evicted and no allocation fails.  The creator of the index has     *)
(* allocated the header page (page 0) and keeps it pinned.  The caller     *)
(* inserts a key with RID(key).                                            *)
(***************************************************************************)
TreePoolFrames == TreeMaxPages
Keys == 1 .. MaxKey
OtherValue(k) == k + MaxKey

Cur == [b |-> pool, root |-> root_page_id_, txn |-> transaction,
        latch |-> latches, fault |-> fault, steps |-> {}, held |-> EmptyMap,
        fresh |-> {}]

Commit(s) ==
    /\ pool' = s.b
    /\ root_page_id_' = s.root
    /\ transaction' = s.txn
    /\ latches' = s.latch
    /\ fault' = IF s.fault # "none" THEN s.fault ELSE s.b.replacer_.fault
    /\ last' = [op |-> "Tree",
                steps |-> s.steps \cup IF \E p \in DOMAIN s.held : s.held[p] > 0
                                      THEN {"PinKept"} ELSE {}]

TreeInit ==
    /\ pool = NewPgImp(BufferPoolManagerInstance(TreePoolFrames, ReplacerK)).b
    /\ root_page_id_ = INVALID_PAGE_ID
    /\ transaction = NoTransaction
    /\ latches = NoLatches(TreePoolFrames)
    /\ fault = "none"
    /\ sizeReadFirst \in BOOLEAN
    /\ table = <<>>
    /\ threads = <<>>
    /\ replacer = LRUKReplacer(0, ReplacerK)
    /\ last = [op |-> "Init"]

\* The Insert that returned r is taken while its pages are within TreeMaxPages
CommitInsert(r) ==
    /\ r.s.b.next_page_id_ <= TreeMaxPages
    /\ Commit(r.s)

Insert(key) ==
    /\ fault = "none"
    /\ CommitInsert(TreeInsert(Cur, key, key))
    /\ UNCHANGED <<sizeReadFirst, table, threads, replacer>>

Remove(key) ==
    /\ fault = "none"
    /\ Commit(TreeRemove(Cur, key, sizeReadFirst))
    /\ UNCHANGED <<sizeReadFirst, table, threads, replacer>>

Get(key) ==
    /\ fault = "none"
    /\ Commit(GetValue(Cur, key).s)
    /\ UNCHANGED <<sizeReadFirst, table, threads, replacer>>

TreeNext ==
    \/ \E k \in Keys : Insert(k)
    \/ \E k \in Keys : Remove(k)
    \/ \E k \in Keys : Get(k)

SpecTree == TreeInit /\ [][TreeNext]_vars

\* The same calls on a tree whose pool has 1 .. SmallPoolFrames frames, the
\* header page pinned in one of them: frames are evicted, and NewPage and
\* FetchPage return null when every frame is pinned.
SmallPoolFrames == 3   \* pool_size of the largest small pool under the tree

SmallInit ==
    \E n \in 1 .. SmallPoolFrames :
        /\ pool = NewPgImp(BufferPoolManagerInstance(n, ReplacerK)).b
        /\ root_page_id_ = INVALID_PAGE_ID
        /\ transaction = NoTransaction
        /\ latches = NoLatches(n)
        /\ fault = "none"
        /\ sizeReadFirst \in BOOLEAN
        /\ table = <<>>
        /\ threads = <<>>
        /\ replacer = LRUKReplacer(0, ReplacerK)
        /\ last = [op |-> "Init"]

SpecSmall == SmallInit /\ [][TreeNext]_vars

(***************************************************************************)
(* The tree as its pages describe it.  The walks stop after TreePoolFrames *)
(* levels or leaves, more than a tree of the run has.                      *)
(***************************************************************************)
\* The bytes a FetchPage(page_id) shows: the frame of the page, or the disk
PageData(b, page_id) ==
    IF page_id \in DOMAIN b.page_table_ THEN b.pages_[b.page_table_[page_id]].data_
    ELSE ReadPage(b, page_id)

ChildIds(n) == {n.array_[i][2] : i \in 1 .. Len(n.array_)}
LeafKeys(n) == {n.array_[i][1] : i \in 1 .. Len(n.array_)}

\* The page ids of the nodes under page_id, page_id included
RECURSIVE NodeIds(_, _, _)
NodeIds(b, page_id, fuel) ==
    LET n == PageData(b, page_id)
    IN  IF fuel = 0 \/ ~IsNode(n) \/ IsLeafPage(n) THEN {page_id}
        ELSE {page_id} \cup UNION {NodeIds(b, c, fuel - 1) : c \in ChildIds(n)}

TreeNodeIds(b, root) ==
    IF root = INVALID_PAGE_ID THEN {} ELSE NodeIds(b, root, TreePoolFrames)
InternalIds(b, root) == {id \in TreeNodeIds(b, root) : PageData(b, id).page_type = "INTERNAL"}
LeafIds(b, root) == {id \in TreeNodeIds(b, root) : IsLeafPage(PageData(b, id))}

\* The keys stored in the leaves under page_id
SubtreeKeys(b, page_id) ==
    UNION {LeafKeys(PageData(b, id)) : id \in LeafIds(b, page_id)}

\* The depths at which the walk from page_id ends: at a leaf, or at a page
\* that is no node
RECURSIVE LeafDepths(_, _, _, _)
LeafDepths(b, page_id, depth, fuel) ==
    LET n == PageData(b, page_id)
    IN  IF fuel = 0 \/ ~IsNode(n) \/ IsLeafPage(n) THEN {depth}
        ELSE UNION {LeafDepths(b, c, depth + 1, fuel - 1) : c \in ChildIds(n)}

\* The number of levels of the tree, 0 for the empty tree
Height(b, root) ==
    IF root = INVALID_PAGE_ID THEN 0
    ELSE CHOOSE d \in LeafDepths(b, root, 1, TreePoolFrames) :
             \A e \in LeafDepths(b, root, 1, TreePoolFrames) : e <= d

\* The left-most leaf under page_id
RECURSIVE LeftMostLeaf(_, _, _)
LeftMostLeaf(b, page_id, fuel) ==
    LET n == PageData(b, page_id)
    IN  IF fuel = 0 \/ ~IsNode(n) \/ IsLeafPage(n) \/ GetSize(n) = 0 THEN page_id
        ELSE LeftMostLeaf(b, ValueAt(n, 0), fuel - 1)

\* The keys met following next_page_id_ from the leaf page_id, in order
RECURSIVE ChainKeys(_, _, _)
ChainKeys(b, page_id, fuel) ==
    IF fuel = 0 \/ page_id = INVALID_PAGE_ID \/ ~IsLeafPage(PageData(b, page_id)) THEN <<>>
    ELSE [i \in 1 .. GetSize(PageData(b, page_id)) |-> KeyAt(PageData(b, page_id), i - 1)]
             \o ChainKeys(b, PageData(b, page_id).next_page_id_, fuel - 1)

\* Where following next_page_id_ from the leaf page_id stops
RECURSIVE ChainEnd(_, _, _)
ChainEnd(b, page_id, fuel) ==
    IF fuel = 0 \/ page_id = INVALID_PAGE_ID \/ ~IsLeafPage(PageData(b, page_id)) THEN page_id
    ELSE ChainEnd(b, PageData(b, page_id).next_page_id_, fuel - 1)

\* What GetValue answers for every key: the map the tree stands for
Content(s) ==
    [k \in {x \in Keys : GetValue(s, x).ret} |-> GetValue(s, k).value]

\* No operation is running and none has stopped the program
Quiescent == fault = "none"

(***************************************************************************)
(* Claims about the tree.                                                  *)
(***************************************************************************)

\* What the reference map holds after Insert(k, v) and after Remove(k)
MapInsert(m, k, v) == IF k \in DOMAIN m THEN m ELSE MapPut(m, k, v)

\* C4: the tree behaves as a reference map.  In every state a run of Insert
\* and Remove calls reaches, Remove(k) takes k and no other key out of what
\* GetValue answers, and Insert(k, v) adds (k, v) to it only if k is absent.
C4_TreeIsReferenceMap ==
    Quiescent =>
        \A k \in Keys :
            /\ Content(TreeRemove(Cur, k, sizeReadFirst)) = MapDel(Content(Cur), k)
            /\ \A v \in {k, OtherValue(k)} :
                   TreeInsert(Cur, k, v).s.b.next_page_id_ <= TreeMaxPages
                       => Content(TreeInsert(Cur, k, v).s) = MapInsert(Content(Cur), k, v)

\* C5: between operations, for every internal node and every slot i >= 1, the
\* keys under child i are >= key[i] and the keys under child i-1 are < key[i].
C5_SeparatorsOrderSubtrees ==
    Quiescent =>
        \A id \in InternalIds(pool, root_page_id_) :
            LET n == PageData(pool, id)
            IN  \A i \in 1 .. GetSize(n) - 1 :
                    /\ \A k \in SubtreeKeys(pool, ValueAt(n, i)) : k >= KeyAt(n, i)
                    /\ \A k \in SubtreeKeys(pool, ValueAt(n, i - 1)) : k < KeyAt(n, i)

\* C6: between operations, following next_page_id_ from the left-most leaf
\* meets the keys in strictly ascending order, meets every key stored in the
\* tree, and ends at INVALID_PAGE_ID.
C6_LeafChainSorted ==
    (Quiescent /\ root_page_id_ # INVALID_PAGE_ID) =>
        LET first == LeftMostLeaf(pool, root_page_id_, TreePoolFrames)
            ks == ChainKeys(pool, first, TreePoolFrames)
        IN  /\ \A i \in 1 .. Len(ks) - 1 : ks[i] < ks[i + 1]
            /\ {ks[i] : i \in 1 .. Len(ks)} = SubtreeKeys(pool, root_page_id_)
            /\ ChainEnd(pool, first, TreePoolFrames) = INVALID_PAGE_ID

TookStep(step) == last.op = "Tree" /\ step \in last.steps
RootSplit ==
    /\ last'.op = "Tree" /\ "NewRoot" \in last'.steps
    /\ Height(pool', root_page_id_') = Height(pool, root_page_id_) + 1
    /\ root_page_id_' >= pool.next_page_id_
    /\ PageData(pool', root_page_id_').page_type = "INTERNAL"
    /\ GetSize(PageData(pool', root_page_id_')) = 2
    /\ ValueAt(PageData(pool', root_page_id_'), 0) = root_page_id_
OnlyChildPromoted ==
    /\ last'.op = "Tree" /\ "PromoteOnlyChild" \in last'.steps
    /\ Height(pool', root_page_id_') = Height(pool, root_page_id_) - 1
    /\ PageData(pool, root_page_id_).page_type = "INTERNAL"
    /\ root_page_id_' \in ChildIds(PageData(pool, root_page_id_))
    /\ IsRootPage(PageData(pool', root_page_id_'))
HeightStep ==
    (/\ Quiescent /\ fault' = "none"
     /\ root_page_id_ # INVALID_PAGE_ID /\ root_page_id_' # INVALID_PAGE_ID
     /\ Height(pool', root_page_id_') # Height(pool, root_page_id_))
        => (RootSplit \/ OnlyChildPromoted)
EqualLeafDepth ==
    (Quiescent /\ root_page_id_ # INVALID_PAGE_ID) =>
        /\ Cardinality(LeafDepths(pool, root_page_id_, 1, TreePoolFrames)) = 1
        /\ \A id \in TreeNodeIds(pool, root_page_id_) : IsNode(PageData(pool, id))

\* C8: between operations all leaves are at the same depth, and the height of
\* a tree that holds nodes before and after a call changes only by a new root
\* on a root split or by the promotion of the root's only child.
C8_LeavesAtOneDepth == [](EqualLeafDepth) /\ [][HeightStep]_vars
\* A tree that grew to three levels by root splits and has just lost one by
\* the promotion of the root's only child
C8_Witness ==
    /\ Quiescent /\ TookStep("PromoteOnlyChild")
    /\ Height(pool, root_page_id_) = 2
    /\ Cardinality(LeafIds(pool, root_page_id_)) >= 3

C14_PinsBalanced ==
    last.op = "Tree" =>
        /\ "UnpinWithoutPin" \notin last.steps
        /\ "PinKept" \notin last.steps
        /\ \A f \in 0 .. TreePoolFrames - 1 :
               pool.pages_[f].pin_count_ > 0
                   => pool.pages_[f].page_id_ = HEADER_PAGE_ID

\* A call has returned in s and has left the tree as it stands now: the same
\* root id, every page with the same bytes, no page allocated and none
\* deleted, every latch free and the page set empty
TreeUnchanged(s) ==
    /\ s.fault = "none" /\ ~Faulted(s.b)
    /\ s.root = root_page_id_
    /\ s.b.next_page_id_ = pool.next_page_id_
    /\ DOMAIN s.b.page_table_ = DOMAIN pool.page_table_
    /\ \A id \in 0 .. pool.next_page_id_ - 1 : PageData(s.b, id) = PageData(pool, id)
    /\ s.latch = NoLatches(TreePoolFrames)
    /\ s.txn = NoTransaction

\* The result r of an Insert of a key that is there
RejectedDuplicate(r) == ~r.ret /\ TreeUnchanged(r.s)

\* C26: Insert(k, v) on a tree that holds k in one of its leaves returns false
\* and leaves the tree unchanged: root id, nodes and entries (the old value
\* of k is kept), no page allocated, all latches released.
C26_DuplicateInsert ==
    Quiescent =>
        \A k \in SubtreeKeys(pool, root_page_id_) :
            RejectedDuplicate(TreeInsert(Cur, k, OtherValue(k)))

\* C27: Remove(k) on a tree none of whose leaves holds k, the empty tree
\* included, returns with the tree unchanged: root id, nodes and entries, no
\* page deleted or allocated, all latches released.
C27_RemoveAbsent ==
    Quiescent =>
        \A k \in Keys \ SubtreeKeys(pool, root_page_id_) :
            TreeUnchanged(TreeRemove(Cur, k, sizeReadFirst))

\* A tree of two levels with a key that none of its leaves holds
C27_Witness ==
    /\ Quiescent
    /\ root_page_id_ # INVALID_PAGE_ID
    /\ PageData(pool, root_page_id_).page_type = "INTERNAL"
    /\ \E k \in Keys \ SubtreeKeys(pool, root_page_id_) :
           /\ \E j \in SubtreeKeys(pool, root_page_id_) : j > k
           /\ TreeUnchanged(TreeRemove(Cur, k, sizeReadFirst))

\* C28: when NewPage returns null during an Insert (in StartNewTree, in Split
\* or for a new root) the call ends with an error only after it has released
\* every latch it holds, root_page_id_latch_ included, and unpinned every
\* page it fetched.
C28_AllocationFailureReleases ==
    (last.op = "Tree" /\ "NewPageNull" \in last.steps) =>
        /\ fault = "OUT_OF_MEMORY"
        /\ latches.root = 0
        /\ \A f \in DOMAIN latches.page : latches.page[f] = 0
        /\ transaction.page_set = <<>>
        /\ "PinKept" \notin last.steps

\* C38: GetValue on the empty tree returns false without tripping an assertion
\* and without keeping a pin, and has released the shared latch of the root id
\* when it returns.
C38_GetValueOnEmptyTree ==
    (last.op = "Tree" /\ "SearchEmpty" \in last.steps) =>
        /\ fault = "none"
        /\ latches.root = 0
        /\ "PinKept" \notin last.steps

\* C30: every write of Insert or Remove to the bytes of a page the tree
\* already had (entries, size, next_page_id_, parent_page_id_), the new parent
\* id of a moved child and the cleared parent id of a promoted root included,
\* is made while the caller holds the exclusive latch of that page.
C30_WritesUnderLatch ==
    last.op = "Tree" => "WriteUnlatched" \notin last.steps

\* The leaves a leaf of the tree can borrow from: the donor holds more than
\* its minimum; recipient and donor are neighbours in the leaf chain
RightDonors(r) ==
    {d \in LeafIds(pool, root_page_id_) :
        /\ PageData(pool, r).next_page_id_ = d
        /\ GetSize(PageData(pool, d)) > GetMinSize(PageData(pool, d))}
LeftDonors(r) ==
    {d \in LeafIds(pool, root_page_id_) :
        /\ PageData(pool, d).next_page_id_ = r
        /\ GetSize(PageData(pool, d)) > GetMinSize(PageData(pool, d))}

\* C32: the leaf MoveFirstToEndOf takes the first entry of the donor, and no
\* other, and appends that entry to the recipient; the donor keeps the rest
\* in order.
C32_LeafMoveFirstToEndOf ==
    (Quiescent /\ root_page_id_ # INVALID_PAGE_ID) =>
        \A r \in LeafIds(pool, root_page_id_) : \A d \in RightDonors(r) :
            LET donor == PageData(pool, d)
                recipient == PageData(pool, r)
                m == LeafMoveFirstToEndOf(donor, recipient)
            IN  /\ m.recipient.array_ = Append(recipient.array_, donor.array_[1])
                /\ m.node.array_ = Tail(donor.array_)

\* C33: the leaf MoveLastToFrontOf takes the last entry of the donor, and no
\* other, and puts that entry in front of those of the recipient.
C33_LeafMoveLastToFrontOf ==
    (Quiescent /\ root_page_id_ # INVALID_PAGE_ID) =>
        \A r \in LeafIds(pool, root_page_id_) : \A d \in LeftDonors(r) :
            LET donor == PageData(pool, d)
                recipient == PageData(pool, r)
                m == LeafMoveLastToFrontOf(donor, recipient)
            IN  /\ m.ok
                /\ m.recipient.array_ = <<donor.array_[Len(donor.array_)]>> \o recipient.array_
                /\ m.node.array_ = SubSeq(donor.array_, 1, Len(donor.array_) - 1)

\* The keys of the slots 1 .. size - 1 of n ascend strictly
KeysAscend(n) == \A i \in 1 .. GetSize(n) - 2 : KeyAt(n, i) < KeyAt(n, i + 1)
\* The largest slot i of n with i = 0 or key[i] <= k
SlotFor(n, k) ==
    CHOOSE i \in 0 .. GetSize(n) - 1 :
        /\ i = 0 \/ KeyAt(n, i) <= k
        /\ \A j \in i + 1 .. GetSize(n) - 1 : KeyAt(n, j) > k

\* C34: on an internal node whose keys of the slots 1 .. size - 1 ascend, the
\* internal LookUp(k) returns for every key k the child of the largest slot i
\* with i = 0 or key[i] <= k, whatever the key of slot 0 holds, and reads no
\* slot before the array.
C34_InternalLookUp ==
    (Quiescent /\ root_page_id_ # INVALID_PAGE_ID) =>
        \A id \in InternalIds(pool, root_page_id_) :
            LET n == PageData(pool, id)
            IN  (GetSize(n) >= 1 /\ KeysAscend(n)) =>
                    \A k \in Keys :
                        /\ InternalLookUp(n, k).ok
                        /\ InternalLookUp(n, k).child = ValueAt(n, SlotFor(n, k))

\* The pages a step took out of the tree, and the pages it deleted from the pool
Detached == TreeNodeIds(pool, root_page_id_) \ TreeNodeIds(pool', root_page_id_')
Deleted == DOMAIN pool.page_table_ \ DOMAIN pool'.page_table_

\* C35: when Remove has returned the deleted page set of the transaction is
\* empty, every page this Remove took out of the tree (a node merged into its
\* sibling, a collapsed root, an emptied root leaf) has been deleted from the
\* pool by a DeletePage that returned true, and no page the tree still reaches
\* was deleted.  Stated for every call that returns: Insert and GetValue take
\* no page out of the tree and delete none.
C35_RemoveDeletesDetached ==
    [][(last'.op = "Tree" /\ Quiescent') =>
          /\ transaction'.deleted_page_set = {}
          /\ "DeletePageFalse" \notin last'.steps
          /\ \A id \in Detached : id \notin DOMAIN pool'.page_table_
          /\ \A id \in Deleted : id \notin TreeNodeIds(pool', root_page_id_')]_vars

\* A Remove has merged internal nodes and collapsed the root, and their pages
\* are gone from the pool
C35_Witness ==
    /\ Quiescent
    /\ TookStep("PromoteOnlyChild") /\ TookStep("CoalesceInternal")
    /\ transaction.deleted_page_set = {}
    /\ Cardinality({id \in 1 .. pool.next_page_id_ - 1 :
                        id \notin DOMAIN pool.page_table_}) >= 3

\* C36: between calls the record of the index in the header page holds
\* root_page_id_: every change of the root id (first insert, new root after a
\* root split, promoted child, tree emptied) is written to it before the call
\* returns.
C36_HeaderRecordIsRoot ==
    (Quiescent /\ last.op = "Tree") =>
        HeaderGetRootId(PageData(pool, HEADER_PAGE_ID)) = root_page_id_

(***************************************************************************)
(* The tree called by several threads.  A step of a thread runs from one   *)
(* blocking acquisition (root_page_id_latch_, or the latch of the page the *)
(* descent has fetched) to the next: what lies between works on pages the   *)
(* thread has latched, on its own Transaction, and on the pool under the    *)
(* pool's latch_.  A step that would wait for a latch is not enabled.       *)
(* Every thread inserts and removes keys of its own and looks up any key.   *)
(***************************************************************************)
ConcThreads == 2       \* threads calling the tree
MaxOps == 3            \* calls each thread makes
ConcMaxKey == 6        \* keys 1 .. ConcMaxKey are used by the threads

Threads == 1 .. ConcThreads
ConcKeys == 1 .. ConcMaxKey
OwnKeys(t) == {k \in ConcKeys : k % ConcThreads = t % ConcThreads}

\* A thread between two calls
Idle == [pc |-> "idle", operation |-> "NONE", key |-> 0, page |-> NULL, parent |-> NULL,
         page_id |-> INVALID_PAGE_ID, txn |-> NoTransaction, ret |-> FALSE, value |-> 0,
         must |-> FALSE, ops |-> 0]

\* The call of thread th has returned
Returned(th, ret, value) ==
    [th EXCEPT !.pc = "idle", !.ret = ret, !.value = value, !.key = 0, !.page = NULL,
               !.parent = NULL, !.page_id = INVALID_PAGE_ID]

\* What thread t works on: the shared tree and pool, and its own Transaction
SOf(t) == [b |-> pool, root |-> root_page_id_, txn |-> threads[t].txn,
           latch |-> latches, fault |-> fault, steps |-> {}, held |-> EmptyMap,
        fresh |-> {}]

\* FindLeaf once the root page is fetched (r): a reader lets go of
\* root_page_id_latch_, and the next thing is the latch of the root page
RootFetched(r, th) ==
    IF r.page = NULL THEN [s |-> Fail(r.s, "nullptr"), th |-> th]
    ELSE [s |-> IF th.operation = "SEARCH" THEN RootRUnlock(r.s) ELSE r.s,
          th |-> [th EXCEPT !.pc = "latch", !.page = r.page, !.page_id = r.s.root]]

\* GetValue up to the latch of the root page
BeginSearch(s, th) ==
    IF s.root = INVALID_PAGE_ID THEN [s |-> Fail(RootRLock(s), "assert"), th |-> th]
    ELSE RootFetched(BpmFetchPage(RootRLock(s), s.root), th)

\* The call of thread th has returned with r: a result, and for GetValue a value
CallReturned(r, th) ==
    [s |-> r.s,
     th |-> Returned(th, r.ret, IF th.operation = "SEARCH" THEN r.value ELSE 0)]

\* Insert and Remove up to the latch of the root page; on the empty tree the
\* call returns
BeginWrite(s, th) ==
    IF IsEmpty(s)
    THEN IF th.operation = "INSERT"
         THEN CallReturned(
                  InsertedFirst(StartNewTree(AddIntoPageSet(RootWLock(s), NULL),
                                             th.key, th.key)), th)
         ELSE [s |-> ReleaseLatchFromQueue(AddIntoPageSet(RootWLock(s), NULL)),
               th |-> Returned(th, FALSE, 0)]
    ELSE RootFetched(BpmFetchPage(AddIntoPageSet(RootWLock(s), NULL), s.root), th)

\* FindLeaf: the latch on the fetched page th.page is taken (the root, or the
\* child of th.parent), and what FindLeaf does next without waiting
LatchPage(s, th) ==
    IF th.operation = "SEARCH"
    THEN IF th.parent = NULL THEN RLatch(s, th.page)
         ELSE BpmUnpinPage(RLatch(s, th.page), th.page_id, FALSE)
    ELSE LET w == IF th.parent = NULL THEN WLatch(s, th.page)
                  ELSE AddIntoPageSet(WLatch(s, th.page), th.parent)
             node == NodeAt(s, th.page)
         IN  IF IsNode(node) /\ (IF th.parent = NULL THEN SafeRoot(th.operation, node)
                                 ELSE SafeChild(th.operation, node))
             THEN ReleaseLatchFromQueue(w) ELSE w

\* FindLeaf once the child is fetched (r): a reader lets go of the parent,
\* and the next thing is the latch of the child
ChildFetched(r, th, child_page_id) ==
    IF r.page = NULL THEN [s |-> Fail(r.s, "nullptr"), th |-> th]
    ELSE [s |-> IF th.operation = "SEARCH" THEN RUnlatch(r.s, th.page) ELSE r.s,
          th |-> [th EXCEPT !.parent = th.page, !.page = r.page,
                            !.page_id = child_page_id]]

\* The descent has reached the leaf th.page: the rest of the call
AtLeaf(s, th, sizeFirst) ==
    IF th.operation = "SEARCH"
    THEN CallReturned(GetValueIn([s |-> s, page |-> th.page], th.key), th)
    ELSE IF th.operation = "INSERT"
    THEN CallReturned(InsertIntoLeafAt([s |-> s, page |-> th.page], th.key, th.key), th)
    ELSE [s |-> RemoveFromLeaf([s |-> s, page |-> th.page], th.key, sizeFirst),
          th |-> Returned(th, FALSE, 0)]

\* FindLeaf with the latch on th.page held: the page is the leaf, or the child
\* is looked up and fetched
AtNode(s, th, sizeFirst) ==
    LET node == NodeAt(s, th.page)
    IN  IF ~Ok(s) THEN [s |-> s, th |-> th]
        ELSE IF ~IsNode(node) THEN [s |-> Fail(s, "corrupt"), th |-> th]
        ELSE IF IsLeafPage(node) THEN AtLeaf(s, th, sizeFirst)
        ELSE IF GetSize(node) = 0 \/ ~InternalLookUp(node, th.key).ok
        THEN [s |-> Fail(s, "out_of_bounds"), th |-> th]
        ELSE ChildFetched(BpmFetchPage(s, InternalLookUp(node, th.key).child), th,
                          InternalLookUp(node, th.key).child)

\* The latch a waiting thread waits for can be had
CanLatch(th) ==
    IF th.operation = "SEARCH" THEN latches.page[th.page] >= 0
    ELSE latches.page[th.page] = 0

\* ghost: the keys whose Insert has returned, and whether Remove was ever
\* called; th is the thread as it went into the step that made it now
NoHistory == [op |-> "Conc", present |-> {}, removed |-> FALSE,
              rootWritten |-> FALSE, rootUnlatched |-> FALSE]
Recorded(h, th, now) ==
    IF now.pc = "idle" /\ th.operation = "INSERT"
    THEN [h EXCEPT !.present = @ \cup {th.key}]
    ELSE IF th.operation = "DELETE"
    THEN [h EXCEPT !.present = @ \ {th.key}, !.removed = TRUE]
    ELSE h

\* ghost: whether root_page_id_ was ever written, and ever without the latch
RootWrites(h, steps) ==
    [h EXCEPT !.rootWritten = @ \/ "RootWritten" \in steps,
              !.rootUnlatched = @ \/ "RootWrittenUnlatched" \in steps]

\* The step of thread t, gone into as th, has led to r
CommitThread(t, th, r) ==
    /\ pool' = r.s.b
    /\ root_page_id_' = r.s.root
    /\ latches' = r.s.latch
    /\ fault' = IF r.s.fault # "none" THEN r.s.fault ELSE r.s.b.replacer_.fault
    /\ threads' = [threads EXCEPT ![t] = [r.th EXCEPT !.txn = r.s.txn]]
    /\ last' = RootWrites(Recorded(last, th, r.th), r.s.steps)
    /\ UNCHANGED <<transaction, sizeReadFirst, table, replacer>>

ConcInit ==
    /\ pool = NewPgImp(BufferPoolManagerInstance(TreePoolFrames, ReplacerK)).b
    /\ root_page_id_ = INVALID_PAGE_ID
    /\ transaction = NoTransaction
    /\ latches = NoLatches(TreePoolFrames)
    /\ fault = "none"
    /\ sizeReadFirst \in BOOLEAN
    /\ table = <<>>
    /\ threads = [t \in Threads |-> Idle]
    /\ replacer = LRUKReplacer(0, ReplacerK)
    /\ last = NoHistory

\* Thread t calls GetValue(key), Insert(key, key) or Remove(key)
Begin(t, operation, key) ==
    /\ fault = "none"
    /\ threads[t].pc = "idle"
    /\ threads[t].ops < MaxOps
    /\ operation = "SEARCH" \/ key \in OwnKeys(t)
    /\ IF operation = "SEARCH" THEN latches.root >= 0 ELSE latches.root = 0
    /\ LET th == [Idle EXCEPT !.pc = "call", !.operation = operation, !.key = key,
                              !.ops = threads[t].ops + 1,
                              !.must = /\ ~last.removed
                                       /\ (key \in last.present) <=> (operation = "SEARCH")]
       IN  CommitThread(t, th, IF operation = "SEARCH" THEN BeginSearch(SOf(t), th)
                               ELSE BeginWrite(SOf(t), th))

\* The step of thread t that led to r is taken unless it would wait for a
\* latch another thread holds
CommitLatched(t, r) ==
    /\ r.s.fault # "deadlock"
    /\ CommitThread(t, threads[t], r)

\* Thread t gets the latch it waits for and goes on to the next one, or to
\* the end of its call
Latch(t) ==
    /\ fault = "none"
    /\ threads[t].pc = "latch"
    /\ CanLatch(threads[t])
    /\ CommitLatched(t, AtNode(LatchPage(SOf(t), threads[t]), threads[t], sizeReadFirst))

ConcNext ==
    \E t \in Threads :
        \/ \E k \in ConcKeys : Begin(t, "SEARCH", k)
        \/ \E k \in ConcKeys : Begin(t, "INSERT", k)
        \/ \E k \in ConcKeys : Begin(t, "DELETE", k)
        \/ Latch(t)

SpecConc == ConcInit /\ [][ConcNext]_vars

(***************************************************************************)
(* Claims about the tree under concurrent calls.                           *)
(***************************************************************************)
InFlight(t) == threads[t].pc # "idle"
AllReturned == \A t \in Threads : ~InFlight(t)
\* Only Insert and GetValue have been called so far
InsertsOnly == ~last.removed
TreeKeys == IF root_page_id_ = INVALID_PAGE_ID THEN {} ELSE SubtreeKeys(pool, root_page_id_)

\* C11: a GetValue(k) that began after Insert(k, v) had returned, with k never
\* removed and the other threads only inserting, returns true with v.
C11_ReaderFindsKey ==
    [][\A t \in DOMAIN threads :
          (/\ threads[t].operation = "SEARCH" /\ threads[t].must
           /\ InFlight(t) /\ threads'[t].pc = "idle"
           /\ ~last'.removed)
              => threads'[t].ret /\ threads'[t].value = threads[t].key]_vars

\* C12: threads insert disjoint key sets; every Insert of a key not yet in the
\* tree returns true, and once all have returned the tree holds exactly the
\* keys inserted and its leaf chain yields them in ascending order.
C12_DisjointInserts ==
    (threads # <<>> /\ InsertsOnly /\ fault = "none") =>
        /\ \A t \in Threads :
               (~InFlight(t) /\ threads[t].operation = "INSERT" /\ threads[t].must)
                   => threads[t].ret
        /\ AllReturned =>
               /\ TreeKeys = last.present
               /\ root_page_id_ # INVALID_PAGE_ID =>
                      LET ks == ChainKeys(pool, LeftMostLeaf(pool, root_page_id_, TreePoolFrames),
                                          TreePoolFrames)
                      IN  /\ \A i \in 1 .. Len(ks) - 1 : ks[i] < ks[i + 1]
                          /\ {ks[i] : i \in 1 .. Len(ks)} = last.present
                          /\ Len(ks) = Cardinality(last.present)
\* Two threads have each inserted two keys, splitting a leaf under the root
C12_Witness ==
    /\ threads # <<>> /\ InsertsOnly /\ fault = "none" /\ AllReturned
    /\ last.present = ConcKeys
    /\ \A t \in Threads : threads[t].operation = "INSERT" /\ threads[t].ret
    /\ Cardinality(LeafIds(pool, root_page_id_)) >= 3

\* Thread t, in a call, can take its next step
CanStep(t) ==
    /\ threads[t].pc = "latch"
    /\ CanLatch(threads[t])
    /\ AtNode(LatchPage(SOf(t), threads[t]), threads[t], sizeReadFirst).s.fault # "deadlock"
\* C13: every call returns: the program is not stopped, a thread in a call is
\* not left waiting with no thread able to move, and when all calls have
\* returned no latch is held.
C13_CallsReturn ==
    threads # <<>> =>
        /\ fault = "none"
        /\ (\E t \in Threads : InFlight(t)) => \E t \in Threads : CanStep(t)
        /\ AllReturned => latches = NoLatches(TreePoolFrames)

\* Some reader holds the latch the waiting reader t came from: the latch of
\* root_page_id_ when t waits for the root page, else that of the parent
ComesFromLatched(t) ==
    IF threads[t].parent = NULL THEN latches.root > 0
    ELSE latches.page[threads[t].parent] > 0

\* C29: a reader on its way down holds a latch at every moment: when it
\* waits for the shared latch of the root page root_page_id_latch_ is still
\* held shared, and when it waits for that of a child the parent is still
\* latched shared.
C29_ReaderLatchCoupling ==
    \A t \in DOMAIN threads :
        (threads[t].pc = "latch" /\ threads[t].operation = "SEARCH")
            => ComesFromLatched(t)

\* C31: root_page_id_ is written only by a thread that holds
\* root_page_id_latch_ exclusively: at the first insert into an empty tree, at
\* a root split, at a root collapse and at the removal of the last key the
\* writer has not let go of it on its way down.
C31_RootWrittenUnderLatch ==
    threads # <<>> => ~last.rootUnlatched
\* The root has split into a new root, written under the latch
C31_Witness ==
    /\ threads # <<>> /\ last.rootWritten /\ ~last.rootUnlatched
    /\ root_page_id_ # INVALID_PAGE_ID
    /\ PageData(pool, root_page_id_).page_type = "INTERNAL"

\* -------------------------------------------------------------------------
\* The replacer called by several threads.  Every member function holds latch_
\* from its first to its last line, so a call is one step, except Evict: it
\* unlocks latch_ at line 43 and then calls Remove (line 44), which locks it
\* again at line 78.  Evict is therefore two steps, the scan and the removal.
\* A thread is [pc, victim, seen]: seen holds the frames that other Evict
\* calls have returned since this thread's scan ended.
\* RecordAccess on a full replacer for an unknown frame locks latch_ twice
\* (see ReplRecordAccess); the threads here do not make that call.
RcFrames == 2          \* frames of the replacer the threads share

RcFrameIds == 0 .. RcFrames

IdleThread == [pc |-> "idle", victim |-> NULL, seen |-> {}]

RcHistory == [op |-> "ReplConc", sameReturned |-> FALSE, metNonEvictable |-> FALSE]

RcInit ==
    /\ replacer = LRUKReplacer(RcFrames, ReplacerK)
    /\ pool = BufferPoolManagerInstance(0, ReplacerK)
    /\ root_page_id_ = INVALID_PAGE_ID
    /\ transaction = NoTransaction
    /\ latches = NoLatches(0)
    /\ fault = "none"
    /\ sizeReadFirst = TRUE
    /\ table = <<>>
    /\ threads = [t \in Threads |-> IdleThread]
    /\ last = RcHistory

RcCanCall(t) == replacer.fault = "none" /\ threads[t].pc = "idle"

RcRecordAccess(t, frame_id) ==
    /\ RcCanCall(t)
    /\ replacer.current_timestamp_ < MaxReplTimestamp
    /\ ~FullFor(replacer, frame_id)
    /\ replacer' = RecordAccess(replacer, frame_id)
    /\ UNCHANGED <<pool, root_page_id_, transaction, latches, fault, sizeReadFirst, table, threads, last>>

RcSetEvictable(t, frame_id, set_evictable) ==
    /\ RcCanCall(t)
    /\ replacer' = SetEvictable(replacer, frame_id, set_evictable)
    /\ UNCHANGED <<pool, root_page_id_, transaction, latches, fault, sizeReadFirst, table, threads, last>>

RcRemove(t, frame_id) ==
    /\ RcCanCall(t)
    /\ replacer' = ReplacerRemove(replacer, frame_id)
    /\ UNCHANGED <<pool, root_page_id_, transaction, latches, fault, sizeReadFirst, table, threads, last>>

\* LRUKReplacer::Evict, lines 20-43: the scan under latch_, which is released
\* at line 40 (no victim, return false) or at line 43 (victim chosen)
RcEvictScan(t, order) ==
    /\ RcCanCall(t)
    /\ LET v == EvictScan(replacer, order)
       IN  threads' = [threads EXCEPT ![t] =
                          IF v = NULL THEN IdleThread
                          ELSE [pc |-> "remove", victim |-> v, seen |-> {}]]
    /\ UNCHANGED <<pool, root_page_id_, transaction, latches, fault, sizeReadFirst, table, replacer, last>>

\* The threads whose Evict is between its scan and its removal
InEvict == {u \in Threads : threads[u].pc = "remove"}

\* LRUKReplacer::Evict, lines 44-45: Remove(*frame_id) under latch_ taken anew,
\* then return true with the frame the scan chose
RcEvictRemove(t) ==
    /\ replacer.fault = "none"
    /\ threads[t].pc = "remove"
    /\ LET v == threads[t].victim
           met == v \in DOMAIN replacer.frameEvictable /\ ~replacer.frameEvictable[v]
       IN  /\ replacer' = ReplacerRemove(replacer, v)
           /\ threads' = [u \in Threads |->
                            IF u = t THEN IdleThread
                            ELSE IF u \in InEvict /\ ~met
                            THEN [threads[u] EXCEPT !.seen = @ \cup {v}]
                            ELSE threads[u]]
           /\ last' = [last EXCEPT
                         !.sameReturned = @ \/ (~met /\ v \in threads[t].seen),
                         !.metNonEvictable = @ \/ met]
    /\ UNCHANGED <<pool, root_page_id_, transaction, latches, fault, sizeReadFirst, table>>

RcNext ==
    \/ \E t \in Threads, f \in RcFrameIds : RcRecordAccess(t, f)
    \/ \E t \in Threads, f \in RcFrameIds, e \in BOOLEAN : RcSetEvictable(t, f, e)
    \/ \E t \in Threads, f \in RcFrameIds : RcRemove(t, f)
    \/ \E t \in Threads, order \in Orders(DOMAIN replacer.frameRecords) : RcEvictScan(t, order)
    \/ \E t \in Threads : RcEvictRemove(t)

SpecReplConc == RcInit /\ [][RcNext]_vars

\* C37: Evict's choice of a victim and the victim's removal are one atomic
\* step: two overlapping Evict calls never return the same frame id, and the
\* removal never meets a victim that another call has made non-evictable.
C37_EvictAtomic ==
    (DOMAIN threads = Threads /\ last.op = "ReplConc")
        => (~last.sameReturned /\ ~last.metNonEvictable)

\* C37, first half alone: overlapping Evict calls return different frames
C37_SameFrameTwice == ~(last.op = "ReplConc" /\ last.sameReturned)

\* C37, second half alone: the removal finds the victim still evictable
C37_VictimStillEvictable == ~(last.op = "ReplConc" /\ last.metNonEvictable)

\* -------------------------------------------------------------------------
\* Callers of the pool that keep to its protocol: a caller that obtained page p
\* by NewPage or FetchPage holds p until its one UnpinPage(p, .); it writes
\* into p only while it holds p, and pages are deleted only when no caller
\* holds them.  The history counts the holders of each page (holders), keeps
\* the pages whose modified bytes a holder has handed back with
\* UnpinPage(p, true) (committed), and notes a FetchPage that returned a
\* committed page with other bytes (stale).
MaxHolders == 2        \* callers holding one page at a time

RtHistory ==
    [op |-> "RoundTrip", holders |-> [p \in PageIds |-> 0], committed |-> {},
     stale |-> FALSE]

RtInit ==
    /\ pool = BufferPoolManagerInstance(PoolFrames, ReplacerK)
    /\ root_page_id_ = INVALID_PAGE_ID
    /\ transaction = NoTransaction
    /\ latches = NoLatches(PoolFrames)
    /\ fault = "none"
    /\ sizeReadFirst = TRUE
    /\ table = <<>>
    /\ threads = <<>>
    /\ replacer = LRUKReplacer(0, ReplacerK)
    /\ last = RtHistory

RtCanCall ==
    /\ ~Faulted(pool) /\ fault = "none"
    /\ pool.replacer_.current_timestamp_ < MaxTimestamp

\* The bytes of the frame r.page are those a holder wrote into page_id
HoldsWritten(b, page_id) ==
    /\ Resident(b, page_id)
    /\ b.pages_[b.page_table_[page_id]].data_ = PageBytes(page_id)

RtNewPage ==
    /\ RtCanCall
    /\ pool.next_page_id_ < MaxPageId
    /\ LET r == NewPgImp(pool)
       IN  /\ pool' = r.b
           /\ last' = IF r.page = NULL THEN last
                      ELSE [last EXCEPT !.holders[r.page_id] = 1]
    /\ UNCHANGED <<root_page_id_, transaction, latches, fault, sizeReadFirst, table, threads, replacer>>

RtFetchPage(page_id) ==
    /\ RtCanCall
    /\ page_id < pool.next_page_id_
    /\ last.holders[page_id] < MaxHolders
    /\ LET r == FetchPgImp(pool, page_id)
       IN  /\ pool' = r.b
           /\ last' = IF r.page = NULL THEN last
                      ELSE [last EXCEPT
                              !.holders[page_id] = @ + 1,
                              !.stale = @ \/ (page_id \in last.committed
                                              /\ r.b.pages_[r.page].data_ # PageBytes(page_id))]
    /\ UNCHANGED <<root_page_id_, transaction, latches, fault, sizeReadFirst, table, threads, replacer>>

\* A holder of page_id modifies its bytes through Page::GetData
RtWriteData(page_id) ==
    /\ RtCanCall
    /\ last.holders[page_id] > 0
    /\ Resident(pool, page_id)
    /\ pool.pages_[pool.page_table_[page_id]].pin_count_ > 0
    /\ ~HoldsWritten(pool, page_id)
    /\ pool' = [pool EXCEPT !.pages_[pool.page_table_[page_id]].data_ = PageBytes(page_id)]
    /\ UNCHANGED <<root_page_id_, transaction, latches, fault, sizeReadFirst, table, threads, replacer, last>>

\* A holder of page_id gives it back
RtUnpinPage(page_id, is_dirty) ==
    /\ RtCanCall
    /\ last.holders[page_id] > 0
    /\ pool' = UnpinPgImp(pool, page_id, is_dirty).b
    /\ last' = [last EXCEPT
                  !.holders[page_id] = @ - 1,
                  !.committed = IF is_dirty /\ HoldsWritten(pool, page_id)
                                THEN @ \cup {page_id} ELSE @]
    /\ UNCHANGED <<root_page_id_, transaction, latches, fault, sizeReadFirst, table, threads, replacer>>

RtFlushPage(page_id) ==
    /\ RtCanCall
    /\ pool' = FlushPgImp(pool, page_id).b
    /\ pool' # pool
    /\ UNCHANGED <<root_page_id_, transaction, latches, fault, sizeReadFirst, table, threads, replacer, last>>

\* DeletePage of a page no caller holds: its bytes are given up
RtDeletePage(page_id) ==
    /\ RtCanCall
    /\ page_id < pool.next_page_id_
    /\ last.holders[page_id] = 0
    /\ LET r == DeletePgImp(pool, page_id)
       IN  /\ pool' = r.b
           /\ last' = IF r.ret THEN [last EXCEPT !.committed = @ \ {page_id}] ELSE last
    /\ UNCHANGED <<root_page_id_, transaction, latches, fault, sizeReadFirst, table, threads, replacer>>

RtNext ==
    \/ RtNewPage
    \/ \E p \in PageIds : RtFetchPage(p)
    \/ \E p \in PageIds : RtWriteData(p)
    \/ \E p \in PageIds, d \in BOOLEAN : RtUnpinPage(p, d)
    \/ \E p \in PageIds : RtFlushPage(p)
    \/ \E p \in PageIds : RtDeletePage(p)

SpecRoundTrip == RtInit /\ [][RtNext]_vars

\* C39: once a holder of p has modified its bytes and called
\* UnpinPage(p, true), every FetchPage(p) that succeeds returns those bytes,
\* whatever evictions and whatever fetches and clean unpins of p by other
\* callers lie in between.
C39_PageRoundTrip == last.op = "RoundTrip" => ~last.stale

(***************************************************************************)
(* The extendible hash table (extendible_hash_table.cpp).  dir_ holds      *)
(* shared pointers to buckets: the buckets live in heap, and dir_[i + 1]   *)
(* is the place in heap of the bucket that slot i of the directory points  *)
(* to.  A bucket no slot points to any more is freed.                      *)
(***************************************************************************)
HashBucketSize == 2    \* bucket_size of the tables: 1 .. HashBucketSize
HashMaxKey == 4        \* keys 0 .. HashMaxKey
HashValues == 2        \* values 1 .. HashValues
HashMaxDepth == 4      \* global depth past which Insert is taken not to return

HashKeys == 0 .. HashMaxKey

\* Bucket::Bucket
Bucket(array_size, depth) == [size_ |-> array_size, depth_ |-> depth, list_ |-> <<>>]

\* ExtendibleHashTable::ExtendibleHashTable
ExtendibleHashTable(bucket_size) ==
    [global_depth_ |-> 0, bucket_size_ |-> bucket_size, num_buckets_ |-> 1,
     dir_ |-> <<1>>, heap |-> <<Bucket(bucket_size, 0)>>, fault |-> "none"]

\* std::hash<int> of the library the program is built with: the value itself
Hash(key) == key

\* ExtendibleHashTable::IndexOf: the low global_depth_ bits of the hash
IndexOf(t, key) == Hash(key) % (2 ^ t.global_depth_)

\* The place in list of the first item with the key from place i on, 0 if none
RECURSIVE PosOf(_, _, _)
PosOf(list, key, i) ==
    IF i > Len(list) THEN 0
    ELSE IF list[i][1] = key THEN i
    ELSE PosOf(list, key, i + 1)

\* Bucket::Find
BucketFind(bk, key) ==
    LET i == PosOf(bk.list_, key, 1)
    IN  [ret |-> i # 0, value |-> IF i = 0 THEN NULL ELSE bk.list_[i][2]]

\* Bucket::Remove
BucketRemove(bk, key) ==
    LET i == PosOf(bk.list_, key, 1)
    IN  IF i = 0 THEN [bk |-> bk, ret |-> FALSE]
        ELSE [bk |-> [bk EXCEPT !.list_ = SubSeq(@, 1, i - 1) \o SubSeq(@, i + 1, Len(@))],
              ret |-> TRUE]

\* Bucket::IsFull
IsFull(bk) == Len(bk.list_) = bk.size_

\* Variant: an existing key is appended anew instead of overwritten
BucketInsertAppends(bk, key, value) ==
    IF IsFull(bk) THEN [bk |-> bk, ret |-> FALSE]
    ELSE [bk |-> [bk EXCEPT !.list_ = Append(@, <<key, value>>)], ret |-> TRUE]

\* Bucket::Insert
BucketInsert(bk, key, value) ==
    LET i == PosOf(bk.list_, key, 1)
    IN  IF i # 0 THEN [bk |-> [bk EXCEPT !.list_[i] = <<key, value>>], ret |-> TRUE]
        ELSE IF IsFull(bk) THEN [bk |-> bk, ret |-> FALSE]
        ELSE [bk |-> [bk EXCEPT !.list_ = Append(@, <<key, value>>)], ret |-> TRUE]

\* ExtendibleHashTable::Find
TableFind(t, key) == BucketFind(t.heap[t.dir_[IndexOf(t, key) + 1]], key)

\* ExtendibleHashTable::Remove
TableRemove(t, key) ==
    LET b == t.dir_[IndexOf(t, key) + 1]
        r == BucketRemove(t.heap[b], key)
    IN  [t |-> [t EXCEPT !.heap[b] = r.bk], ret |-> r.ret]

\* Insert, lines 98-101: the directory doubles, its upper half a copy of the lower
Doubled(t) ==
    LET n == 2 * t.num_buckets_
        half == SubSeq(t.dir_, 1, n \div 2)
    IN  [t EXCEPT !.global_depth_ = @ + 1, !.num_buckets_ = n, !.dir_ = half \o half]

\* Insert, lines 109-112, from slot i on: the slots of the split bucket are
\* pointed at lastBucket and newBucket in turn
RECURSIVE SplitDir(_, _, _, _, _)
SplitDir(t, i, localDepth, lastBucket, newBucket) ==
    IF i >= 2 ^ t.global_depth_ THEN t
    ELSE IF i + 2 ^ localDepth >= Len(t.dir_) THEN [t EXCEPT !.fault = "out_of_bounds"]
    ELSE SplitDir([t EXCEPT !.dir_[i + 1] = lastBucket,
                            !.dir_[i + 2 ^ localDepth + 1] = newBucket],
                  i + 2 ^ (localDepth + 1), localDepth, lastBucket, newBucket)

\* Insert, lines 113-115, from item i on: the items of the split bucket are
\* inserted into the bucket their slot now points to
RECURSIVE Reinsert(_, _, _)
Reinsert(t, list, i) ==
    IF i > Len(list) THEN t
    ELSE LET b == t.dir_[IndexOf(t, list[i][1]) + 1]
         IN  Reinsert([t EXCEPT !.heap[b] = BucketInsert(@, list[i][1], list[i][2]).bk],
                      list, i + 1)

\* The buckets no slot of dir_ points to are freed (std::shared_ptr); the
\* others are kept in the order dir_ first points to them
Collected(t) ==
    LET used == {t.dir_[i] : i \in DOMAIN t.dir_}
        First(b) == CHOOSE i \in DOMAIN t.dir_ :
                        t.dir_[i] = b /\ \A j \in 1 .. i - 1 : t.dir_[j] # b
        Rank(b) == Cardinality({c \in used : First(c) < First(b)}) + 1
        At(r) == CHOOSE b \in used : Rank(b) = r
    IN  [t EXCEPT !.heap = [r \in 1 .. Cardinality(used) |-> t.heap[At(r)]],
                  !.dir_ = [i \in DOMAIN t.dir_ |-> Rank(t.dir_[i])]]

\* Insert, lines 103-115, on the table d (doubled if it had to be): the bucket
\* of slot idx is replaced by two buckets one bit deeper
SplitIn(d, idx) ==
    LET b == d.dir_[idx + 1]
        localDepth == d.heap[b].depth_
        list_ == d.heap[b].list_
        made == [d EXCEPT !.heap = [@ EXCEPT ![b].depth_ = @ + 1]
                                   \o <<Bucket(d.bucket_size_, localDepth + 1),
                                        Bucket(d.bucket_size_, localDepth + 1)>>]
        startIdx == idx % (2 ^ localDepth)
    IN  Collected(Reinsert(SplitDir(made, startIdx, localDepth,
                                    Len(d.heap) + 1, Len(d.heap) + 2),
                           list_, 1))

\* Insert, lines 97-115: one round of the loop after the bucket refused the key
SplitBucket(t, idx) ==
    SplitIn(IF t.heap[t.dir_[idx + 1]].depth_ = t.global_depth_ THEN Doubled(t) ELSE t, idx)

\* ExtendibleHashTable::Insert: the loop of lines 91-116
RECURSIVE TableInsert(_, _, _)
TableInsert(t, key, value) ==
    LET b == t.dir_[IndexOf(t, key) + 1]
        r == BucketInsert(t.heap[b], key, value)
    IN  IF r.ret THEN [t EXCEPT !.heap[b] = r.bk]
        ELSE IF t.global_depth_ >= HashMaxDepth THEN [t EXCEPT !.fault = "no_return"]
        ELSE TableInsert(SplitBucket(t, IndexOf(t, key)), key, value)

HashValue == 1 .. HashValues

\* The history of the table: the last call with its result, the map the calls
\* describe (ref), and whether the last Insert split a bucket
HashHistory(call, key, ret, value, ref, present, split) ==
    [op |-> "Hash", call |-> call, key |-> key, ret |-> ret, value |-> value,
     ref |-> ref, present |-> present, split |-> split]

HashInit ==
    /\ \E bucket_size \in 1 .. HashBucketSize : table = ExtendibleHashTable(bucket_size)
    /\ pool = BufferPoolManagerInstance(0, ReplacerK)
    /\ root_page_id_ = INVALID_PAGE_ID
    /\ transaction = NoTransaction
    /\ latches = NoLatches(0)
    /\ fault = "none"
    /\ sizeReadFirst = TRUE
    /\ threads = <<>>
    /\ replacer = LRUKReplacer(0, ReplacerK)
    /\ last = HashHistory("Init", NULL, FALSE, NULL, EmptyMap, FALSE, FALSE)

HashInsert(key, value) ==
    /\ table.fault = "none"
    /\ table' = TableInsert(table, key, value)
    /\ last' = HashHistory("Insert", key, TRUE, value, MapPut(last.ref, key, value),
                           key \in DOMAIN last.ref,
                           ~BucketInsert(table.heap[table.dir_[IndexOf(table, key) + 1]],
                                         key, value).ret)
    /\ UNCHANGED <<pool, root_page_id_, transaction, latches, fault, sizeReadFirst, threads, replacer>>

HashRemove(key) ==
    /\ table.fault = "none"
    /\ table' = TableRemove(table, key).t
    /\ last' = HashHistory("Remove", key, TableRemove(table, key).ret, NULL,
                           MapDel(last.ref, key), key \in DOMAIN last.ref, FALSE)
    /\ UNCHANGED <<pool, root_page_id_, transaction, latches, fault, sizeReadFirst, threads, replacer>>

HashFind(key) ==
    /\ table.fault = "none"
    /\ last' = HashHistory("Find", key, TableFind(table, key).ret, TableFind(table, key).value,
                           last.ref, key \in DOMAIN last.ref, FALSE)
    /\ UNCHANGED <<pool, root_page_id_, transaction, latches, fault, sizeReadFirst, threads, replacer, table>>

HashNext ==
    \/ \E k \in HashKeys, v \in HashValue : HashInsert(k, v)
    \/ \E k \in HashKeys : HashRemove(k)
    \/ \E k \in HashKeys : HashFind(k)

SpecHash == HashInit /\ [][HashNext]_vars

\* The items of all buckets of the table
RECURSIVE ItemCount(_, _)
ItemCount(t, b) == IF b > Len(t.heap) THEN 0 ELSE Len(t.heap[b].list_) + ItemCount(t, b + 1)

\* Find(k) on the table answers as the map ref does
AgreesWith(t, ref) ==
    \A k \in HashKeys :
        /\ TableFind(t, k).ret = (k \in DOMAIN ref)
        /\ k \in DOMAIN ref => TableFind(t, k).value = ref[k]

\* C40: under any sequence of Insert, Remove and Find the table answers as a
\* map does: Insert returns and overwrites an existing key, Find gives the
\* value of the latest Insert not followed by a Remove, Remove returns true
\* iff the key was present, and a split loses or changes no other mapping
\* (every key is stored once).
C40_ReferenceMap ==
    last.op = "Hash" =>
        /\ table.fault = "none"
        /\ AgreesWith(table, last.ref)
        /\ ItemCount(table, 1) = Cardinality(DOMAIN last.ref)
        /\ last.call = "Remove" => last.ret = last.present
        /\ last.call = "Find" =>
              /\ last.ret = last.present
              /\ last.ret => last.value = last.ref[last.key]

\* An Insert has split a bucket of a table that holds other keys, some of them
\* in buckets less deep than the directory
C40_Witness ==
    /\ last.op = "Hash" /\ last.call = "Insert" /\ last.split
    /\ table.global_depth_ >= 2
    /\ Cardinality(DOMAIN last.ref) >= 3
    /\ \E b \in DOMAIN table.heap : table.heap[b].depth_ < table.global_depth_

====
